---- MODULE Spec2Model ----
(***************************************************************************)
(* MapChat browser client: the chat stream decoder of streamChatMessage    *)
(* (static/js/api.js), the chat callbacks and the check-for-route-update   *)
(* flow (static/js/chat.js) and the form module that owns the session      *)
(* state currentRoute / currentPlaces / currentFeatures (form.js).         *)
(*                                                                         *)
(* JavaScript runs one handler at a time; an async function runs until its *)
(* next await on a network request.  Each action below is one such run:    *)
(* a user event, a stream read callback, or the continuation of an async   *)
(* function after a response.  An await on a value that is already         *)
(* available (the cache-hit return of getPlaces) continues in the same     *)
(* action.                                                                 *)
(***************************************************************************)
EXTENDS Integers, Sequences, FiniteSets, TLC

(***************************************************************************)
(* Bounds of the model.                                                    *)
(***************************************************************************)
MaxMsgs == 2        \* messages in one stream text (SpecDecoder)
MaxEvents == 2      \* user events in one session (Spec)

VARIABLES
    currentRoute,     \* form.js: let currentRoute
    currentPlaces,    \* form.js: let currentPlaces
    currentFeatures,  \* form.js: let currentFeatures
    dom,              \* the elements of index.html the code reads and writes
    map,              \* map.js: routeLayer, placesLayer, featuresLayer
    flows,            \* async functions suspended at an await
    log,              \* requests sent to the backend, and the console
                      \* records of a reused route and of a cache hit
    server,           \* the backend's conversation state (GET /get_current_route)
    used,             \* how often each bounded environment event happened
    stream,           \* text the backend sends on the open chat stream
    pos,              \* characters of stream already delivered to the reader
    reader,           \* state of the response body reader
    decoder,          \* bytes the TextDecoder holds back (stream: true)
    buffer,           \* streamChatMessage: let buffer
    fullResponse,     \* streamChatMessage: let fullResponse
    requiresUpdate,   \* streamChatMessage: let requiresUpdate
    bubble,           \* sendMessage: assistantMessageElement
    calls,            \* callbacks streamChatMessage has invoked, in order
    chatRequests      \* POST /chat/stream requests sent so far

vars == <<currentRoute, currentPlaces, currentFeatures, dom, map, flows, log,
          server, used, stream, pos, reader, decoder, buffer,
          fullResponse, requiresUpdate, bubble, calls, chatRequests>>

(***************************************************************************)
(* JavaScript values.  null / a missing field is the empty tuple, a value  *)
(* that is present is a one-element tuple.  The fields of a decoded JSON   *)
(* message are strings; "undefined" is a field the message does not have,  *)
(* "true" and "false" are the JSON booleans.                               *)
(***************************************************************************)
Null == <<>>
Some(x) == <<x>>
Val(o) == o[1]
Undefined == "undefined"

\* JavaScript truthiness of a message field
Truthy(v) == v \notin {Undefined, "false", ""}

\* v || d
OrElse(v, d) == IF Truthy(v) THEN v ELSE d

(***************************************************************************)
(* The world: every variable the handlers read or write, as one record, so *)
(* that a handler that calls other functions is the composition of their   *)
(* effects.                                                                *)
(***************************************************************************)
W == [currentRoute |-> currentRoute, currentPlaces |-> currentPlaces,
      currentFeatures |-> currentFeatures, dom |-> dom, map |-> map,
      flows |-> flows, log |-> log, server |-> server, used |-> used,
      stream |-> stream, pos |-> pos, reader |-> reader,
      decoder |-> decoder, buffer |-> buffer,
      fullResponse |-> fullResponse, requiresUpdate |-> requiresUpdate,
      bubble |-> bubble, calls |-> calls, chatRequests |-> chatRequests]

Commit(w) ==
    /\ currentRoute' = w.currentRoute
    /\ currentPlaces' = w.currentPlaces
    /\ currentFeatures' = w.currentFeatures
    /\ dom' = w.dom
    /\ map' = w.map
    /\ flows' = w.flows
    /\ log' = w.log
    /\ server' = w.server
    /\ used' = w.used
    /\ stream' = w.stream
    /\ pos' = w.pos
    /\ reader' = w.reader
    /\ decoder' = w.decoder
    /\ buffer' = w.buffer
    /\ fullResponse' = w.fullResponse
    /\ requiresUpdate' = w.requiresUpdate
    /\ bubble' = w.bubble
    /\ calls' = w.calls
    /\ chatRequests' = w.chatRequests

Start(w) ==
    /\ currentRoute = w.currentRoute
    /\ currentPlaces = w.currentPlaces
    /\ currentFeatures = w.currentFeatures
    /\ dom = w.dom
    /\ map = w.map
    /\ flows = w.flows
    /\ log = w.log
    /\ server = w.server
    /\ used = w.used
    /\ stream = w.stream
    /\ pos = w.pos
    /\ reader = w.reader
    /\ decoder = w.decoder
    /\ buffer = w.buffer
    /\ fullResponse = w.fullResponse
    /\ requiresUpdate = w.requiresUpdate
    /\ bubble = w.bubble
    /\ calls = w.calls
    /\ chatRequests = w.chatRequests

\* the sequence s without its i-th element
RemoveAt(s, i) == SubSeq(s, 1, i - 1) \o SubSeq(s, i + 1, Len(s))

(***************************************************************************)
(* Backend data.  An address geocodes to coordinates named by the address; *)
(* the polyline and the texts of a route are determined by the coordinates *)
(* of the request; places and features are determined by the polyline and  *)
(* the radius of the request.                                              *)
(***************************************************************************)
Addresses == {"A", "B"}
Radii == {"5", "10"}
FeatureRadii == {"1", "2"}

Polyline(req) == [origin |-> req.origin, destination |-> req.destination,
                  waypoints |-> req.waypoints]

\* the body of a successful POST /route response
RouteData(req, id, hasPolyline) ==
    [id |-> id,
     polyline_coords |-> IF hasPolyline THEN Some(Polyline(req)) ELSE Null,
     distance_text |-> <<"km", Polyline(req)>>,
     duration_text |-> <<"min", Polyline(req)>>,
     sampled_points |-> req.sample]

PlacesData(polylineCoords, radiusKm) ==
    [polyline_coords |-> polylineCoords, radius_m |-> radiusKm, method |-> "node"]

FeaturesData(polylineCoords, radiusKm) ==
    [polyline_coords |-> polylineCoords, radius_m |-> radiusKm, method |-> "way"]

(***************************************************************************)
(* sidebar.js and map.js: what the session flows show.                     *)
(***************************************************************************)
showLoading(w) == [w EXCEPT !.dom.loading = TRUE, !.dom.results = FALSE]

hideLoading(w) == [w EXCEPT !.dom.loading = FALSE]

showResults(w) == [w EXCEPT !.dom.results = TRUE]

updateRouteInfo(w, distance, duration) ==
    [w EXCEPT !.dom.routeInfo = Some(<<distance, duration>>)]

updateSampledInfo(w, count) == [w EXCEPT !.dom.sampledInfo = count]

clearMapLayers(w) ==
    [w EXCEPT !.map = [routeLayer |-> {}, placesLayer |-> Null,
                       featuresLayer |-> Null]]

\* adds the polyline to the route layer; a route without polyline is not drawn
displayRoute(w, routeData) ==
    IF routeData.polyline_coords = Null
    THEN w
    ELSE [w EXCEPT !.map.routeLayer = @ \cup {Val(routeData.polyline_coords)}]

displayPlaces(w, places) == [w EXCEPT !.map.placesLayer = Some(places)]

displayFeatures(w, features) == [w EXCEPT !.map.featuresLayer = Some(features)]

updatePlacesList(w, places) == [w EXCEPT !.dom.placesList = <<"list", places>>]

updateFeaturesList(w, features) ==
    [w EXCEPT !.dom.featuresList = <<"list", features>>]

(***************************************************************************)
(* form.js: the session state and the flows that change it.                *)
(***************************************************************************)
resetCachedData(w) == [w EXCEPT !.currentPlaces = Null, !.currentFeatures = Null]

\* the session route a request was sent under (0: none): every route response
\* is a new object, numbered in the order of arrival
RouteId(w) == IF w.currentRoute = Null THEN 0 ELSE Val(w.currentRoute).id

\* api.js getPlacesRequest: the POST /places it sends, with the session route
\* and the number of slider inputs at the time it is sent
PlacesRequest(w, polylineCoords, radiusKm) ==
    [url |-> "/places", polyline_coords |-> polylineCoords, radius |-> radiusKm,
     route |-> RouteId(w), slider |-> w.used.placesInputs]

\* api.js getFeaturesRequest: the POST /natural_features it sends
FeaturesRequest(w, polylineCoords, radiusKm) ==
    [url |-> "/natural_features", polyline_coords |-> polylineCoords,
     radius |-> radiusKm, route |-> RouteId(w),
     slider |-> w.used.featuresInputs]

\* getPlaces line 301: the console record of a request served from the
\* cache, with what was asked for, what was served and the session route
PlacesFromCache(w, polylineCoords, radiusKm) ==
    [url |-> "cache:/places", polyline_coords |-> polylineCoords,
     radius |-> radiusKm, served |-> Val(w.currentPlaces).data,
     sessionRoute |-> w.currentRoute]

\* getNaturalFeatures line 369
FeaturesFromCache(w, polylineCoords, radiusKm) ==
    [url |-> "cache:/natural_features", polyline_coords |-> polylineCoords,
     radius |-> radiusKm, served |-> Val(w.currentFeatures).data,
     sessionRoute |-> w.currentRoute]

\* getPlaces up to its first await.  hit: it returned without a request.
\* k is the generateRoute call that awaits it (Null when nobody awaits).
getPlaces(w, polylineCoords, forceRefresh, k) ==
    LET placesRadiusKm == w.dom.placesRadius IN
    IF /\ ~forceRefresh
       /\ w.currentPlaces # Null
       /\ Val(w.currentPlaces).radius = placesRadiusKm
    THEN [hit |-> TRUE,
          w |-> updatePlacesList(
                    displayPlaces(
                        [w EXCEPT !.log = Append(@, PlacesFromCache(
                                                        w, polylineCoords,
                                                        placesRadiusKm))],
                        Val(w.currentPlaces).data),
                    Val(w.currentPlaces).data)]
    ELSE [hit |-> FALSE,
          w |-> [w EXCEPT
                   !.log = Append(@, PlacesRequest(w, polylineCoords,
                                                   placesRadiusKm)),
                   !.flows = Append(@, [kind |-> "getPlaces",
                                        pc |-> "placesRequest",
                                        polylineCoords |-> polylineCoords,
                                        radius |-> placesRadiusKm,
                                        k |-> k])]]

getNaturalFeatures(w, polylineCoords, forceRefresh, k) ==
    LET featuresRadiusKm == w.dom.featuresRadius IN
    IF /\ ~forceRefresh
       /\ w.currentFeatures # Null
       /\ Val(w.currentFeatures).radius = featuresRadiusKm
    THEN [hit |-> TRUE,
          w |-> updateFeaturesList(
                    displayFeatures(
                        [w EXCEPT !.log = Append(@, FeaturesFromCache(
                                                        w, polylineCoords,
                                                        featuresRadiusKm))],
                        Val(w.currentFeatures).data),
                    Val(w.currentFeatures).data)]
    ELSE [hit |-> FALSE,
          w |-> [w EXCEPT
                   !.log = Append(@, FeaturesRequest(w, polylineCoords,
                                                     featuresRadiusKm)),
                   !.flows = Append(@, [kind |-> "getNaturalFeatures",
                                        pc |-> "featuresRequest",
                                        polylineCoords |-> polylineCoords,
                                        radius |-> featuresRadiusKm,
                                        k |-> k])]]

\* generateRoute, lines 277-286: show results, finally hide loading
GenFinish(w) == hideLoading(showResults(w))

\* GenFail without the finally block: the loading indicator stays
GenFailNoFinally(w) == [w EXCEPT !.dom.alerts = @ + 1]

\* generateRoute, lines 280-286: catch (alert), finally hide loading
GenFail(w) == hideLoading([w EXCEPT !.dom.alerts = @ + 1])

\* generateRoute, lines 272-286, after places
GenAfterPlaces(w, L) ==
    IF L.showFeatures
    THEN LET r == getNaturalFeatures(w, Val(Val(L.routeData).polyline_coords),
                                     FALSE, Some(L))
         IN IF r.hit THEN GenFinish(r.w) ELSE r.w
    ELSE GenFinish(w)

\* generateRoute, lines 243-286: display the route, then places and features
GenDisplay(w, L) ==
    LET routeData == Val(L.routeData)
        w1 == updateRouteInfo(displayRoute(w, routeData),
                              routeData.distance_text, routeData.duration_text)
        w2 == updateSampledInfo(w1, routeData.sampled_points)
    IN IF L.showPlaces
       THEN LET r == getPlaces(w2, Val(routeData.polyline_coords), FALSE, Some(L))
            IN IF r.hit THEN GenAfterPlaces(r.w, L) ELSE r.w
       ELSE GenAfterPlaces(w2, L)

\* generateRoute, lines 133-155: may the route in memory be reused?
ReuseRoute(w) ==
    /\ w.currentRoute # Null
    /\ Val(w.currentRoute).polyline_coords # Null
    /\ w.dom.originCoords # ""
    /\ w.dom.destinationCoords # ""
    /\ w.dom.sampleRoute = Val(w.currentRoute).sampled_points

NonBlank(val) == val # ""

\* generateRoute line 147: the console record of a reused route, with the
\* inputs of the form and the route that is reused
RouteReused(w, L) ==
    [url |-> "reuse:/route", originInput |-> L.originInput,
     destinationInput |-> L.destinationInput,
     waypointInputs |-> L.waypointInputs, routeData |-> Val(w.currentRoute)]

\* generateRoute up to its first await
generateRoute(w) ==
    LET L == [originInput |-> w.dom.origin,
              destinationInput |-> w.dom.destination,
              waypointInputs |-> SelectSeq(w.dom.waypoints, NonBlank),
              showPlaces |-> w.dom.showPlaces,
              showFeatures |-> w.dom.showFeatures,
              origin |-> Null, destination |-> Null, waypoints |-> <<>>,
              wi |-> 0, requestData |-> Null, routeData |-> Null]
        w1 == clearMapLayers(showLoading(w))
    IN IF ReuseRoute(w1)
       THEN GenDisplay([w1 EXCEPT !.log = Append(@, RouteReused(w1, L))],
                       [L EXCEPT !.routeData = w1.currentRoute])
       ELSE [resetCachedData(w1) EXCEPT
               !.flows = Append(@, [kind |-> "generateRoute",
                                    pc |-> "geocodeOrigin", L |-> L])]

\* index.html: the button submits route-form, whose origin and destination
\* inputs are required; form.js 93-96: the submit handler calls generateRoute
ClickGenerateRoute(w) ==
    IF w.dom.origin # "" /\ w.dom.destination # "" THEN generateRoute(w) ELSE w

(***************************************************************************)
(* Continuations: what an async function does when the response it awaits  *)
(* arrives, up to its next await.  i is the position of the call in flows. *)
(***************************************************************************)
DropFlow(w, i) == [w EXCEPT !.flows = RemoveAt(@, i)]

SetFlow(w, i, f) == [w EXCEPT !.flows[i] = f]

\* api.js geocodeAddress: the coordinates, or null on any failure
Geocode(address, ok) ==
    IF ok THEN Some([lat |-> address, lng |-> address]) ELSE Null

\* generateRoute, lines 181-201: prepare the request and send POST /route
GenSendRoute(w, i, L) ==
    LET requestData == [origin |-> Val(L.origin),
                        destination |-> Val(L.destination),
                        waypoints |-> L.waypoints,
                        sample |-> w.dom.sampleRoute]
    IN [w EXCEPT !.log = Append(@, [url |-> "/route",
                                    requestData |-> requestData]),
                 !.flows[i] = [kind |-> "generateRoute", pc |-> "routeRequest",
                               L |-> [L EXCEPT !.requestData = Some(requestData)]]]

\* generateRoute, lines 172-179: geocode the next waypoint, or send the request
GenWaypoints(w, i, L) ==
    IF L.wi < Len(L.waypointInputs)
    THEN SetFlow(w, i, [kind |-> "generateRoute", pc |-> "geocodeWaypoint",
                        L |-> [L EXCEPT !.wi = @ + 1]])
    ELSE GenSendRoute(w, i, L)

\* GeocodeDone that drops the session route when the origin or the
\* destination does not geocode
GeocodeDoneDropsRoute(w, i, ok) ==
    LET f == w.flows[i] IN
    IF f.kind = "geocodeAddress"
    THEN LET text == IF ok THEN "Lat: " \o f.address ELSE "Error" IN
         IF f.displayElementId = "origin-coords"
         THEN DropFlow([w EXCEPT !.dom.originCoords = text], i)
         ELSE DropFlow([w EXCEPT !.dom.destinationCoords = text], i)
    ELSE IF f.pc = "geocodeOrigin"
    THEN SetFlow(w, i, [kind |-> "generateRoute", pc |-> "geocodeDestination",
                        L |-> [f.L EXCEPT
                                 !.origin = Geocode(f.L.originInput, ok)]])
    ELSE IF f.pc = "geocodeDestination"
    THEN LET L == [f.L EXCEPT
                     !.destination = Geocode(f.L.destinationInput, ok)]
         IN IF L.origin = Null \/ L.destination = Null
            THEN GenFail(DropFlow([w EXCEPT !.currentRoute = Null], i))
            ELSE GenWaypoints(w, i, L)
    ELSE LET waypoint == Geocode(f.L.waypointInputs[f.L.wi], ok)
             L == IF waypoint # Null
                  THEN [f.L EXCEPT !.waypoints = Append(@, Val(waypoint))]
                  ELSE f.L
         IN GenWaypoints(w, i, L)

\* a POST /geocode response arrives
GeocodeDone(w, i, ok) ==
    LET f == w.flows[i] IN
    IF f.kind = "geocodeAddress"
    THEN \* form.js 99-109, api.js 27-42: show the result in the coords element
         LET text == IF ok THEN "Lat: " \o f.address ELSE "Error" IN
         IF f.displayElementId = "origin-coords"
         THEN DropFlow([w EXCEPT !.dom.originCoords = text], i)
         ELSE DropFlow([w EXCEPT !.dom.destinationCoords = text], i)
    ELSE IF f.pc = "geocodeOrigin"
    THEN SetFlow(w, i, [kind |-> "generateRoute", pc |-> "geocodeDestination",
                        L |-> [f.L EXCEPT
                                 !.origin = Geocode(f.L.originInput, ok)]])
    ELSE IF f.pc = "geocodeDestination"
    THEN LET L == [f.L EXCEPT
                     !.destination = Geocode(f.L.destinationInput, ok)]
         IN IF L.origin = Null \/ L.destination = Null
            THEN GenFail(DropFlow(w, i))
            ELSE GenWaypoints(w, i, L)
    ELSE \* geocodeWaypoint: a waypoint that does not geocode is left out
         LET waypoint == Geocode(f.L.waypointInputs[f.L.wi], ok)
             L == IF waypoint # Null
                  THEN [f.L EXCEPT !.waypoints = Append(@, Val(waypoint))]
                  ELSE f.L
         IN GenWaypoints(w, i, L)

\* the POST /route response arrives: generateRoute, lines 201-230
RouteDone(w, i, outcome) ==
    LET L == w.flows[i].L IN
    IF outcome = "error"
    THEN GenFail(DropFlow(w, i))
    ELSE LET routeData == RouteData(Val(L.requestData), w.used.routes + 1,
                                    outcome = "ok")
             w1 == [w EXCEPT !.currentRoute = Some(routeData),
                             !.used.routes = @ + 1]
         IN IF routeData.polyline_coords = Null
            THEN GenFail(DropFlow(w1, i))
            ELSE SetFlow(w1, i, [kind |-> "generateRoute", pc |-> "updateState",
                                 L |-> [L EXCEPT !.routeData = Some(routeData)]])

\* what generateRoute posts to /update_conversation_state, lines 220-229
ConversationState(L) ==
    [origin |-> L.originInput, destination |-> L.destinationInput,
     waypoints |-> [j \in 1..Len(L.waypoints) |-> L.waypointInputs[j]],
     route_data |-> Val(L.routeData).polyline_coords]

\* the /update_conversation_state response arrives: generateRoute, 232-287
UpdateStateDone(w, i, ok) ==
    LET L == w.flows[i].L
        w1 == IF ok THEN [w EXCEPT !.server = Some(ConversationState(L))] ELSE w
    IN GenDisplay(DropFlow(w1, i), L)

\* getPlaces returns to the generateRoute call that awaits it, if any
PlacesReturn(w, k) == IF k = Null THEN w ELSE GenAfterPlaces(w, Val(k))

FeaturesReturn(w, k) == IF k = Null THEN w ELSE GenFinish(w)

\* the POST /places response arrives: getPlaces, lines 315-339 and 351-354
\* PlacesDone, sending the request again after a failure
PlacesDoneRetries(w, i, ok) ==
    LET f == w.flows[i] IN
    IF ok
    THEN LET places == PlacesData(f.polylineCoords, f.radius)
             w1 == [w EXCEPT !.currentPlaces =
                                 Some([data |-> places, radius |-> f.radius])]
         IN SetFlow(updatePlacesList(displayPlaces(w1, places), places), i,
                    [f EXCEPT !.pc = "updatePlaces"])
    ELSE [w EXCEPT !.log = Append(@, PlacesRequest(w, f.polylineCoords,
                                                   f.radius))]

\* PlacesDone with a getPlaces that lets the error of its request through
\* to the generateRoute call that awaits it
PlacesDoneRethrows(w, i, ok) ==
    LET f == w.flows[i] IN
    IF ok
    THEN LET places == PlacesData(f.polylineCoords, f.radius)
             w1 == [w EXCEPT !.currentPlaces =
                                 Some([data |-> places, radius |-> f.radius])]
         IN SetFlow(updatePlacesList(displayPlaces(w1, places), places), i,
                    [f EXCEPT !.pc = "updatePlaces"])
    ELSE IF f.k = Null
    THEN DropFlow([w EXCEPT !.dom.placesList = <<"error">>], i)
    ELSE GenFail(DropFlow([w EXCEPT !.dom.placesList = <<"error">>], i))

\* PlacesDone that stores the radius selected when the response arrives
PlacesDoneRadiusAtResponse(w, i, ok) ==
    LET f == w.flows[i] IN
    IF ok
    THEN LET places == PlacesData(f.polylineCoords, f.radius)
             w1 == [w EXCEPT !.currentPlaces =
                                 Some([data |-> places,
                                       radius |-> w.dom.placesRadius])]
         IN SetFlow(updatePlacesList(displayPlaces(w1, places), places), i,
                    [f EXCEPT !.pc = "updatePlaces"])
    ELSE PlacesReturn(DropFlow([w EXCEPT !.dom.placesList = <<"error">>], i),
                      f.k)

PlacesDone(w, i, ok) ==
    LET f == w.flows[i] IN
    IF ok
    THEN LET places == PlacesData(f.polylineCoords, f.radius)
             w1 == [w EXCEPT !.currentPlaces =
                                 Some([data |-> places, radius |-> f.radius])]
         IN SetFlow(updatePlacesList(displayPlaces(w1, places), places), i,
                    [f EXCEPT !.pc = "updatePlaces"])
    ELSE PlacesReturn(DropFlow([w EXCEPT !.dom.placesList = <<"error">>], i),
                      f.k)

\* the /update_places_data response arrives: getPlaces, lines 341-350
UpdatePlacesDone(w, i) == PlacesReturn(DropFlow(w, i), w.flows[i].k)

\* the POST /natural_features response arrives: getNaturalFeatures, 383-407
FeaturesDone(w, i, ok) ==
    LET f == w.flows[i] IN
    IF ok
    THEN LET features == FeaturesData(f.polylineCoords, f.radius)
             w1 == [w EXCEPT !.currentFeatures =
                                 Some([data |-> features, radius |-> f.radius])]
         IN SetFlow(updateFeaturesList(displayFeatures(w1, features), features),
                    i, [f EXCEPT !.pc = "updateFeatures"])
    ELSE FeaturesReturn(
             DropFlow([w EXCEPT !.dom.featuresList = <<"error">>], i), f.k)

\* the /update_features_data response arrives: getNaturalFeatures, 409-418
UpdateFeaturesDone(w, i) == FeaturesReturn(DropFlow(w, i), w.flows[i].k)

(***************************************************************************)
(* chat.js: the check-for-route-update flow and the callbacks sendMessage  *)
(* passes to streamChatMessage.                                            *)
(***************************************************************************)
\* checkForRouteUpdate up to its await of getCurrentRouteData
checkForRouteUpdate(w) ==
    [w EXCEPT !.flows = Append(@, [kind |-> "checkForRouteUpdate",
                                   pc |-> "getCurrentRoute"])]

\* CheckShowRoute that never uses the cached places and features
CheckShowRouteAlwaysFetches(w) ==
    IF w.currentRoute # Null /\ Val(w.currentRoute).polyline_coords # Null
    THEN LET existingRoute == Val(w.currentRoute)
             w1 == updateRouteInfo(displayRoute(w, existingRoute),
                                   existingRoute.distance_text,
                                   existingRoute.duration_text)
             w2 == updateSampledInfo(w1, existingRoute.sampled_points)
             w3 == IF w2.dom.showPlaces
                   THEN getPlaces(w2, Val(existingRoute.polyline_coords),
                                  TRUE,
                                  Null).w
                   ELSE w2
             w4 == IF w3.dom.showFeatures
                   THEN getNaturalFeatures(
                            w3, Val(existingRoute.polyline_coords),
                            TRUE,
                            Null).w
                   ELSE w3
         IN showResults(w4)
    ELSE ClickGenerateRoute(w)

\* checkForRouteUpdate, lines 333-395: show the route held in memory, or
\* click the generate-route button when there is none
CheckShowRoute(w) ==
    IF w.currentRoute # Null /\ Val(w.currentRoute).polyline_coords # Null
    THEN LET existingRoute == Val(w.currentRoute)
             w1 == updateRouteInfo(displayRoute(w, existingRoute),
                                   existingRoute.distance_text,
                                   existingRoute.duration_text)
             w2 == updateSampledInfo(w1, existingRoute.sampled_points)
             w3 == IF w2.dom.showPlaces
                   THEN getPlaces(w2, Val(existingRoute.polyline_coords),
                                  \/ w2.currentPlaces = Null
                                  \/ Val(w2.currentPlaces).radius
                                         # w2.dom.placesRadius,
                                  Null).w
                   ELSE w2
             w4 == IF w3.dom.showFeatures
                   THEN getNaturalFeatures(
                            w3, Val(existingRoute.polyline_coords),
                            \/ w3.currentFeatures = Null
                            \/ Val(w3.currentFeatures).radius
                                   # w3.dom.featuresRadius,
                            Null).w
                   ELSE w3
         IN showResults(w4)
    ELSE ClickGenerateRoute(w)

\* CurrentRouteDone that switches to the info tab also when the backend has
\* no route or the request failed
CurrentRouteDoneAlwaysInfo(w, i, ok) ==
    LET routeData == IF ok THEN w.server ELSE Null
        w0 == DropFlow(w, i)
    IN IF routeData = Null
       THEN [w0 EXCEPT !.dom.activeTab = "info"]
       ELSE LET r == Val(routeData)
                w1 == [w0 EXCEPT !.dom.origin = r.origin,
                                 !.dom.originCoords = "Lat: " \o r.origin,
                                 !.dom.destination = r.destination,
                                 !.dom.destinationCoords =
                                     "Lat: " \o r.destination,
                                 !.dom.waypoints = r.waypoints]
            IN [CheckShowRoute(w1) EXCEPT !.dom.activeTab = "info"]

\* the GET /get_current_route response arrives: api.js getCurrentRouteData
\* gives null on 404 or failure; checkForRouteUpdate, lines 270-410
\* CurrentRouteDone that goes on without route data: it shows the route in
\* memory, or clicks generate-route, and switches to the info tab
CurrentRouteDoneWithoutData(w, i, ok) ==
    LET routeData == IF ok THEN w.server ELSE Null
        w0 == DropFlow(w, i)
    IN IF routeData = Null
       THEN [CheckShowRoute(w0) EXCEPT !.dom.activeTab = "info"]
       ELSE LET r == Val(routeData)
                w1 == [w0 EXCEPT !.dom.origin = r.origin,
                                 !.dom.originCoords = "Lat: " \o r.origin,
                                 !.dom.destination = r.destination,
                                 !.dom.destinationCoords =
                                     "Lat: " \o r.destination,
                                 !.dom.waypoints = r.waypoints]
            IN [CheckShowRoute(w1) EXCEPT !.dom.activeTab = "info"]

CurrentRouteDone(w, i, ok) ==
    LET routeData == IF ok THEN w.server ELSE Null
        w0 == DropFlow(w, i)
    IN IF routeData = Null
       THEN w0
       ELSE LET r == Val(routeData)
                w1 == [w0 EXCEPT !.dom.origin = r.origin,
                                 !.dom.originCoords = "Lat: " \o r.origin,
                                 !.dom.destination = r.destination,
                                 !.dom.destinationCoords =
                                     "Lat: " \o r.destination,
                                 !.dom.waypoints = r.waypoints]
            IN [CheckShowRoute(w1) EXCEPT !.dom.activeTab = "info"]

\* sendMessage, lines 130-144
onChunk(w, chunk) ==
    [w EXCEPT !.bubble.text = @ \o chunk, !.bubble.cursor = TRUE,
              !.calls = Append(@, [cb |-> "onChunk", chunk |-> chunk])]

\* sendMessage, lines 146-171
onComplete(w, result) ==
    LET w1 == [w EXCEPT !.bubble.text = result.responseText,
                        !.bubble.cursor = FALSE,
                        !.calls = Append(@, [cb |-> "onComplete",
                                             result |-> result])]
    IN IF Truthy(result.requiresUpdate) THEN checkForRouteUpdate(w1) ELSE w1

ErrorText == "Sorry, there was an error processing your request. Please try again."

\* onError that also drops the cached places and features
onErrorReset(w, error) ==
    [resetCachedData(w) EXCEPT
       !.bubble = [text |-> ErrorText, cursor |-> FALSE, error |-> TRUE],
       !.calls = Append(@, [cb |-> "onError", error |-> error])]

\* sendMessage, lines 173-187
onError(w, error) ==
    [w EXCEPT !.bubble = [text |-> ErrorText, cursor |-> FALSE, error |-> TRUE],
              !.calls = Append(@, [cb |-> "onError", error |-> error])]

(***************************************************************************)
(* api.js streamChatMessage: the text of a chat stream.  The stream is a   *)
(* sequence of bytes; every byte is one character except the two bytes C3  *)
(* A9 of the character e-acute.  A JSON payload is written { key }, where  *)
(* the key names the object the payload stands for.                        *)
(***************************************************************************)
Msg == [status |-> Undefined, message |-> Undefined,
        requires_ui_update |-> Undefined, show_places |-> Undefined,
        show_features |-> Undefined, waypoint |-> Undefined,
        chunk |-> Undefined, complete |-> Undefined, error |-> Undefined]

\* the objects the backend sends; waypoint is the waypoint's display_name
JSONObjects ==
    "h" :> [Msg EXCEPT !.chunk = "Hi"]
 @@ "E9" :> [Msg EXCEPT !.chunk = "E9"]
 @@ "c" :> [Msg EXCEPT !.complete = "true", !.requires_ui_update = "false"]
 @@ "u" :> [Msg EXCEPT !.complete = "true", !.requires_ui_update = "true"]
 @@ "b" :> [Msg EXCEPT !.chunk = "Ok", !.complete = "true",
                       !.requires_ui_update = "true"]
 @@ "e" :> [Msg EXCEPT !.error = "boom"]
 @@ "r" :> [Msg EXCEPT !.status = "route_generated", !.message = "Route",
                       !.requires_ui_update = "true"]
 @@ "p" :> [Msg EXCEPT !.status = "places_requested", !.message = "Places",
                       !.show_places = "true"]
 @@ "f" :> [Msg EXCEPT !.status = "features_requested",
                       !.message = "Features", !.show_features = "true"]
 @@ "w" :> [Msg EXCEPT !.status = "waypoint_added", !.message = "Waypoint",
                       !.waypoint = "B"]
 @@ "n" :> [Msg EXCEPT !.status = "waypoint_added"]
 @@ "q" :> [Msg EXCEPT !.status = "places_requested", !.message = "Places",
                       !.show_places = "false"]
 @@ "g" :> [Msg EXCEPT !.status = "features_requested",
                       !.message = "Features", !.requires_ui_update = "true"]
 @@ "R" :> [Msg EXCEPT !.status = "route_generated", !.message = "Route",
                       !.requires_ui_update = "true", !.error = "boom"]
 @@ "P" :> [Msg EXCEPT !.status = "places_requested", !.message = "Places",
                       !.show_places = "true", !.error = "boom"]
 @@ "F" :> [Msg EXCEPT !.status = "features_requested",
                       !.message = "Features", !.show_features = "true",
                       !.error = "boom"]
 @@ "X" :> [Msg EXCEPT !.status = "waypoint_added", !.message = "Waypoint",
                       !.waypoint = "B", !.error = "boom"]

Prefix == <<"d", "a", "t", "a", ":", " ">>

Delimiter == <<"\n", "\n">>

\* the bytes of a character
Bytes(char) == IF char = "E9" THEN <<"C3", "A9">> ELSE <<char>>

\* the bytes of the message  data: {key}  followed by the delimiter
Encode(key) == Prefix \o <<"{">> \o Bytes(key) \o <<"}">> \o Delimiter

\* new TextDecoder().decode(value, {stream: true}): a lead byte at the end
\* of the fragment is held back until the next fragment
RECURSIVE Decode(_, _, _, _)
Decode(pending, value, i, text) ==
    IF i > Len(value)
    THEN [text |-> text, pending |-> pending]
    ELSE LET b == value[i] IN
         IF pending # <<>>
         THEN IF b = "A9"
              THEN Decode(<<>>, value, i + 1, Append(text, "E9"))
              ELSE Decode(<<>>, value, i, Append(text, "FFFD"))
         ELSE IF b = "C3"
         THEN Decode(<<b>>, value, i + 1, text)
         ELSE IF b = "A9"
         THEN Decode(<<>>, value, i + 1, Append(text, "FFFD"))
         ELSE Decode(<<>>, value, i + 1, Append(text, b))

\* buffer.split('\n\n'): the pieces between the delimiters, left to right
RECURSIVE Split(_, _, _, _)
Split(text, i, piece, pieces) ==
    IF i > Len(text)
    THEN Append(pieces, piece)
    ELSE IF i < Len(text) /\ text[i] = "\n" /\ text[i + 1] = "\n"
    THEN Split(text, i + 2, <<>>, Append(pieces, piece))
    ELSE Split(text, i + 1, Append(piece, text[i]), pieces)

\* line.startsWith('data: ')
StartsWith(line, prefix) ==
    /\ Len(line) >= Len(prefix)
    /\ SubSeq(line, 1, Len(prefix)) = prefix

\* JSON.parse(line.slice(6)): the object, or null for a SyntaxError
JSONparse(payload) ==
    IF /\ Len(payload) = 3
       /\ payload[1] = "{"
       /\ payload[3] = "}"
       /\ payload[2] \in DOMAIN JSONObjects
    THEN Some(JSONObjects[payload[2]])
    ELSE Null

\* StatusComplete that completes with the accumulated chunk text
StatusCompleteKeepsChunks(w, data) ==
    LET w1 == [w EXCEPT !.requiresUpdate =
                            OrElse(data.requires_ui_update, "false")]
    IN [stop |-> TRUE,
        w |-> onComplete(w1, [responseText |-> w1.fullResponse,
                              requiresUpdate |-> w1.requiresUpdate])]

(***************************************************************************)
(* streamChatMessage.processStream: one decoded message.  stop: the        *)
(* handler cancelled the reader and returned.                              *)
(***************************************************************************)
\* lines 294-303 and alike: take message and flag, complete, cancel
StatusComplete(w, data) ==
    LET w1 == [w EXCEPT !.fullResponse = OrElse(data.message, ""),
                        !.requiresUpdate =
                            OrElse(data.requires_ui_update, "false")]
    IN [stop |-> TRUE,
        w |-> onComplete(w1, [responseText |-> w1.fullResponse,
                              requiresUpdate |-> w1.requiresUpdate])]

\* PlacesRequested with a refresh that is always forced
PlacesRequestedForced(w, data) ==
    IF Truthy(data.show_places)
    THEN LET w1 == [w EXCEPT !.dom.showPlaces = TRUE] IN
         IF w1.currentRoute # Null /\ Val(w1.currentRoute).polyline_coords # Null
         THEN getPlaces(w1, Val(Val(w1.currentRoute).polyline_coords), TRUE,
                        Null).w
         ELSE ClickGenerateRoute(w1)
    ELSE w

\* PlacesRequested that does not look at the show_places flag
PlacesRequestedUnasked(w, data) ==
    LET w1 == [w EXCEPT !.dom.showPlaces = TRUE] IN
    IF w1.currentRoute # Null /\ Val(w1.currentRoute).polyline_coords # Null
    THEN getPlaces(w1, Val(Val(w1.currentRoute).polyline_coords),
                   \/ w1.currentPlaces = Null
                   \/ Val(w1.currentPlaces).radius # w1.dom.placesRadius,
                   Null).w
    ELSE ClickGenerateRoute(w1)

\* lines 313-343
PlacesRequested(w, data) ==
    IF Truthy(data.show_places)
    THEN LET w1 == [w EXCEPT !.dom.showPlaces = TRUE] IN
         IF w1.currentRoute # Null /\ Val(w1.currentRoute).polyline_coords # Null
         THEN getPlaces(w1, Val(Val(w1.currentRoute).polyline_coords),
                        \/ w1.currentPlaces = Null
                        \/ Val(w1.currentPlaces).radius # w1.dom.placesRadius,
                        Null).w
         ELSE ClickGenerateRoute(w1)
    ELSE w

\* lines 361-391
FeaturesRequested(w, data) ==
    IF Truthy(data.show_features)
    THEN LET w1 == [w EXCEPT !.dom.showFeatures = TRUE] IN
         IF w1.currentRoute # Null /\ Val(w1.currentRoute).polyline_coords # Null
         THEN getNaturalFeatures(
                  w1, Val(Val(w1.currentRoute).polyline_coords),
                  \/ w1.currentFeatures = Null
                  \/ Val(w1.currentFeatures).radius # w1.dom.featuresRadius,
                  Null).w
         ELSE ClickGenerateRoute(w1)
    ELSE w

\* lines 409-441
WaypointAdded(w, data) ==
    IF Truthy(data.waypoint)
    THEN ClickGenerateRoute([w EXCEPT !.dom.waypoints = Append(@, data.waypoint)])
    ELSE w

\* PlainMessage with a complete branch that ends the stream: it invokes
\* onComplete and cancels the reader
PlainMessageCompleteEnds(w, data) ==
    LET w1 == IF Truthy(data.chunk)
              THEN onChunk([w EXCEPT !.fullResponse = @ \o data.chunk],
                           data.chunk)
              ELSE w
    IN IF Truthy(data.complete)
       THEN LET w2 == [w1 EXCEPT !.requiresUpdate =
                                     OrElse(data.requires_ui_update, "false")]
            IN [stop |-> TRUE,
                w |-> onComplete(w2, [responseText |-> w2.fullResponse,
                                      requiresUpdate |-> w2.requiresUpdate])]
       ELSE IF Truthy(data.error)
       THEN [stop |-> TRUE, w |-> onError(w1, data.error)]
       ELSE [stop |-> FALSE, w |-> w1]

\* PlainMessage with an error branch that reports the error but goes on
\* reading (no reader.cancel(), no return)
PlainMessageNoCancel(w, data) ==
    LET w1 == IF Truthy(data.chunk)
              THEN onChunk([w EXCEPT !.fullResponse = @ \o data.chunk],
                           data.chunk)
              ELSE w
        w2 == IF Truthy(data.complete)
              THEN [w1 EXCEPT !.requiresUpdate =
                                  OrElse(data.requires_ui_update, "false")]
              ELSE w1
    IN IF Truthy(data.error)
       THEN [stop |-> FALSE, w |-> onError(w2, data.error)]
       ELSE [stop |-> FALSE, w |-> w2]

\* PlainMessage with the complete branch as the alternative of the chunk
\* branch: a message with both fields is only delivered as a chunk
PlainMessageChunkOrComplete(w, data) ==
    LET w2 == IF Truthy(data.chunk)
              THEN onChunk([w EXCEPT !.fullResponse = @ \o data.chunk],
                           data.chunk)
              ELSE IF Truthy(data.complete)
              THEN [w EXCEPT !.requiresUpdate =
                                 OrElse(data.requires_ui_update, "false")]
              ELSE w
    IN IF Truthy(data.error)
       THEN [stop |-> TRUE, w |-> onError(w2, data.error)]
       ELSE [stop |-> FALSE, w |-> w2]

\* lines 452-476: chunk, complete and error fields of a message without a
\* recognized status
PlainMessage(w, data) ==
    LET w1 == IF Truthy(data.chunk)
              THEN onChunk([w EXCEPT !.fullResponse = @ \o data.chunk],
                           data.chunk)
              ELSE w
        w2 == IF Truthy(data.complete)
              THEN [w1 EXCEPT !.requiresUpdate =
                                  OrElse(data.requires_ui_update, "false")]
              ELSE w1
    IN IF Truthy(data.error)
       THEN [stop |-> TRUE, w |-> onError(w2, data.error)]
       ELSE [stop |-> FALSE, w |-> w2]

\* HandleData with the error branch moved in front of the status branches
HandleDataErrorFirst(w, data) ==
    IF Truthy(data.error) THEN [stop |-> TRUE, w |-> onError(w, data.error)]
    ELSE IF data.status = "route_generated" THEN StatusComplete(w, data)
    ELSE IF data.status = "places_requested"
    THEN StatusComplete(PlacesRequested(w, data), data)
    ELSE IF data.status = "features_requested"
    THEN StatusComplete(FeaturesRequested(w, data), data)
    ELSE IF data.status = "waypoint_added"
    THEN StatusComplete(WaypointAdded(w, data), data)
    ELSE PlainMessage(w, data)

\* lines 289-476
HandleData(w, data) ==
    IF data.status = "route_generated" THEN StatusComplete(w, data)
    ELSE IF data.status = "places_requested"
    THEN StatusComplete(PlacesRequested(w, data), data)
    ELSE IF data.status = "features_requested"
    THEN StatusComplete(FeaturesRequested(w, data), data)
    ELSE IF data.status = "waypoint_added"
    THEN StatusComplete(WaypointAdded(w, data), data)
    ELSE PlainMessage(w, data)

\* ProcessLines with a SyntaxError that is reported as an error of the
\* stream: onError is invoked and the reader is cancelled
RECURSIVE ProcessLinesAbort(_, _, _)
ProcessLinesAbort(w, lines, i) ==
    IF i > Len(lines)
    THEN w
    ELSE IF ~StartsWith(lines[i], Prefix)
    THEN ProcessLinesAbort(w, lines, i + 1)
    ELSE LET data == JSONparse(SubSeq(lines[i], Len(Prefix) + 1, Len(lines[i])))
         IN IF data = Null
            THEN [onError(w, "SyntaxError") EXCEPT !.reader = "cancelled"]
            ELSE LET r == HandleData(w, Val(data)) IN
                 IF r.stop
                 THEN [r.w EXCEPT !.reader = "cancelled"]
                 ELSE ProcessLinesAbort(r.w, lines, i + 1)

\* ProcessLines without the test for the data: prefix: the text of every
\* segment from the seventh character on is taken for a message
RECURSIVE ProcessLinesNoPrefixTest(_, _, _)
ProcessLinesNoPrefixTest(w, lines, i) ==
    IF i > Len(lines)
    THEN w
    ELSE LET data == JSONparse(SubSeq(lines[i], Len(Prefix) + 1, Len(lines[i])))
         IN IF data = Null
            THEN ProcessLinesNoPrefixTest(w, lines, i + 1)
            ELSE LET r == HandleData(w, Val(data)) IN
                 IF r.stop
                 THEN [r.w EXCEPT !.reader = "cancelled"]
                 ELSE ProcessLinesNoPrefixTest(r.w, lines, i + 1)

\* ProcessLines without the return after reader.cancel(): the messages that
\* follow in the same fragment are handled as well
RECURSIVE ProcessLinesNoReturn(_, _, _)
ProcessLinesNoReturn(w, lines, i) ==
    IF i > Len(lines)
    THEN w
    ELSE IF ~StartsWith(lines[i], Prefix)
    THEN ProcessLinesNoReturn(w, lines, i + 1)
    ELSE LET data == JSONparse(SubSeq(lines[i], Len(Prefix) + 1, Len(lines[i])))
         IN IF data = Null
            THEN ProcessLinesNoReturn(w, lines, i + 1)
            ELSE LET r == HandleData(w, Val(data)) IN
                 IF r.stop
                 THEN ProcessLinesNoReturn([r.w EXCEPT !.reader = "cancelled"],
                                           lines, i + 1)
                 ELSE ProcessLinesNoReturn(r.w, lines, i + 1)

\* lines 284-486: the complete messages of the buffer, in order; the reader
\* is cancelled at the first message that stops, else the next read is issued
RECURSIVE ProcessLines(_, _, _)
ProcessLines(w, lines, i) ==
    IF i > Len(lines)
    THEN w
    ELSE IF ~StartsWith(lines[i], Prefix)
    THEN ProcessLines(w, lines, i + 1)
    ELSE LET data == JSONparse(SubSeq(lines[i], Len(Prefix) + 1, Len(lines[i])))
         IN IF data = Null
            THEN ProcessLines(w, lines, i + 1)
            ELSE LET r == HandleData(w, Val(data)) IN
                 IF r.stop
                 THEN [r.w EXCEPT !.reader = "cancelled"]
                 ELSE ProcessLines(r.w, lines, i + 1)

\* ProcessFragment with a buffer that does not keep the last, incomplete piece
ProcessFragmentNoRemainder(w, value) ==
    LET d == Decode(w.decoder, value, 1, <<>>)
        lines == Split(w.buffer \o d.text, 1, <<>>, <<>>)
    IN ProcessLines([w EXCEPT !.decoder = d.pending, !.buffer = <<>>],
                    SubSeq(lines, 1, Len(lines) - 1), 1)

\* lines 275-486: reader.read() resolved with a fragment
ProcessFragment(w, value) ==
    LET d == Decode(w.decoder, value, 1, <<>>)
        lines == Split(w.buffer \o d.text, 1, <<>>, <<>>)
    IN ProcessLines([w EXCEPT !.decoder = d.pending,
                              !.buffer = lines[Len(lines)]],
                    SubSeq(lines, 1, Len(lines) - 1), 1)

\* ProcessDone that first handles what is left in the buffer as a message
ProcessDoneFlush(w) ==
    LET w1 == ProcessLines(w, <<w.buffer>>, 1) IN
    IF w1.reader = "cancelled"
    THEN w1
    ELSE onComplete([w1 EXCEPT !.reader = "done"],
                    [responseText |-> w1.fullResponse,
                     requiresUpdate |-> w1.requiresUpdate])

\* ProcessDone that invokes no callback
ProcessDoneSilent(w) == [w EXCEPT !.reader = "done"]

\* ProcessDone with a completion that forgets the remembered update flag
ProcessDoneNoFlag(w) ==
    onComplete([w EXCEPT !.reader = "done"],
               [responseText |-> w.fullResponse, requiresUpdate |-> "false"])

\* lines 256-273: reader.read() resolved with done
ProcessDone(w) ==
    onComplete([w EXCEPT !.reader = "done"],
               [responseText |-> w.fullResponse,
                requiresUpdate |-> w.requiresUpdate])

\* ProcessError that takes the rejected read for the end of the stream as
\* well: onError, then onComplete with what has accumulated
ProcessErrorThenDone(w) ==
    LET w1 == onError([w EXCEPT !.reader = "errored"], "read failed")
    IN onComplete(w1, [responseText |-> w.fullResponse,
                       requiresUpdate |-> w.requiresUpdate])

\* lines 487-496: reader.read() rejected
ProcessError(w) == onError([w EXCEPT !.reader = "errored"], "read failed")

\* lines 237-249: the response to POST /chat/stream is 2xx
ResponseOk(w) ==
    [w EXCEPT !.reader = "open", !.decoder = <<>>, !.buffer = <<>>,
              !.fullResponse = "", !.requiresUpdate = "false"]

\* lines 238-240 and 510-519: non-2xx response, or the fetch rejected
ResponseFailed(w) == onError([w EXCEPT !.reader = "failed"], "HTTP error")

\* lines 521-527: close() of the handle streamChatMessage returns to its
\* caller; it logs that the stream was closed
close(w) == [w EXCEPT !.log = Append(@, [url |-> "close:/chat/stream"])]

\* chat.js sendMessage, lines 86-128, and api.js 231-236: the user's message
\* and a new bubble are appended to the chat messages (dom.chatMessages
\* counts the messages after the greeting), the POST /chat/stream request
\* is sent; text is what the backend will send
sendMessage(w, text) ==
    [w EXCEPT !.bubble = [text |-> "", cursor |-> TRUE, error |-> FALSE],
              !.stream = text, !.pos = 0, !.reader = "connecting",
              !.calls = <<>>,
              !.chatRequests = @ + 1,
              !.dom.chatMessages = @ + 2]

(***************************************************************************)
(* The page after load: index.html and the module initialisers.            *)
(***************************************************************************)
PageLoaded ==
    [currentRoute |-> Null, currentPlaces |-> Null, currentFeatures |-> Null,
     dom |-> [origin |-> "", destination |-> "", waypoints |-> <<>>,
              originCoords |-> "", destinationCoords |-> "",
              sampleRoute |-> FALSE, showPlaces |-> FALSE,
              showFeatures |-> FALSE, placesRadius |-> "5",
              featuresRadius |-> "1", loading |-> FALSE, results |-> FALSE,
              routeInfo |-> Null, sampledInfo |-> FALSE, placesList |-> <<>>,
              featuresList |-> <<>>, activeTab |-> "info", alerts |-> 0,
              chatMessages |-> 0],
     map |-> [routeLayer |-> {}, placesLayer |-> Null, featuresLayer |-> Null],
     flows |-> <<>>, log |-> <<>>, server |-> Null,
     used |-> [events |-> 0, chats |-> 0, routes |-> 0, placesInputs |-> 0,
               featuresInputs |-> 0],
     stream |-> <<>>, pos |-> 0, reader |-> "none", decoder |-> <<>>,
     buffer |-> <<>>, fullResponse |-> "", requiresUpdate |-> "false",
     bubble |-> [text |-> "", cursor |-> FALSE, error |-> FALSE],
     calls |-> <<>>, chatRequests |-> 0]

\* form.js 99-109: the user types an address and leaves the field
TypeAddress(w, field, address) ==
    IF field = "origin"
    THEN [w EXCEPT !.dom.origin = address,
                   !.flows = Append(@, [kind |-> "geocodeAddress",
                                        pc |-> "geocode", address |-> address,
                                        displayElementId |-> "origin-coords"])]
    ELSE [w EXCEPT !.dom.destination = address,
                   !.flows = Append(@, [kind |-> "geocodeAddress",
                                        pc |-> "geocode", address |-> address,
                                        displayElementId |-> "destination-coords"])]

\* the session after the user entered the addresses A and B
FormFilled ==
    LET w1 == GeocodeDone(TypeAddress(PageLoaded, "origin", "A"), 1, TRUE)
    IN GeocodeDone(TypeAddress(w1, "destination", "B"), 1, TRUE)

\* the session after the user entered A and B and generated the route
SessionWithRoute ==
    LET w3 == GeocodeDone(GeocodeDone(ClickGenerateRoute(FormFilled), 1, TRUE),
                          1, TRUE)
    IN UpdateStateDone(RouteDone(w3, 1, "ok"), 1, TRUE)

\* the session after the user then ticked sample-route: the next click on
\* generate-route requests a new route
SessionSampling == [SessionWithRoute EXCEPT !.dom.sampleRoute = TRUE]

Sessions == {PageLoaded, SessionWithRoute, SessionSampling}

(***************************************************************************)
(* SpecDecoder: one chat stream, delivered in fragments of any length,     *)
(* in a session without or with a route.                                   *)
(***************************************************************************)
StreamKeys == {"h", "E9", "u", "e", "p", "R", "P", "F", "X"}

\* the texts of at most n messages
RECURSIVE Texts(_)
Texts(n) ==
    IF n = 0
    THEN {<<>>}
    ELSE LET shorter == Texts(n - 1)
         IN shorter \cup {t \o Encode(k) : t \in shorter, k \in StreamKeys}

InitDecoder ==
    \E w \in {PageLoaded, SessionWithRoute}, text \in Texts(MaxMsgs) :
        Start(sendMessage(w, text))

\* the backend answers POST /chat/stream with 2xx
Connect ==
    /\ reader = "connecting"
    /\ Commit(ResponseOk(W))

\* the backend answers non-2xx, or the request fails
ConnectFail ==
    /\ reader = "connecting"
    /\ Commit(ResponseFailed(W))

\* the next n bytes of the stream arrive as one fragment
Read(n) ==
    /\ reader = "open"
    /\ pos + n <= Len(stream)
    /\ Commit(ProcessFragment([W EXCEPT !.pos = pos + n],
                              SubSeq(stream, pos + 1, pos + n)))

\* the backend closes the stream after its last byte
StreamEnd ==
    /\ reader = "open"
    /\ pos = Len(stream)
    /\ Commit(ProcessDone(W))

\* a read of the stream fails
ReadFail ==
    /\ reader = "open"
    /\ Commit(ProcessError(W))

NextDecoder ==
    \/ Connect
    \/ ConnectFail
    \/ \E n \in 1..Len(stream) : Read(n)
    \/ StreamEnd
    \/ ReadFail

SpecDecoder == InitDecoder /\ [][NextDecoder]_vars

(***************************************************************************)
(* Spec: the session.  The user fills the form, clicks, changes options    *)
(* and chats; the backend answers the requests in any order.  A chat       *)
(* stream carries one message, delivered as one fragment.  Sending the     *)
(* message and opening the stream write only the bubble and the variables  *)
(* of the stream, so they commute with the responses of the other          *)
(* requests and are taken together with the handling of the message.       *)
(***************************************************************************)
Init == \E w \in Sessions : Start(w)

\* the user types another address into the origin or destination field
UserTypes ==
    /\ used.events < MaxEvents
    /\ \E field \in {"origin", "destination"}, address \in Addresses :
           /\ dom[field] # address
           /\ Commit(TypeAddress([W EXCEPT !.used.events = @ + 1], field,
                                 address))

\* the user clicks the generate-route button of the filled form
UserClicks ==
    /\ used.events < MaxEvents
    /\ dom.origin # "" /\ dom.destination # ""
    /\ Commit(ClickGenerateRoute([W EXCEPT !.used.events = @ + 1]))

\* the user changes a checkbox
UserChecks ==
    /\ used.events < MaxEvents
    /\ \E box \in {"sampleRoute", "showPlaces", "showFeatures"} :
           Commit([W EXCEPT !.used.events = @ + 1, !.dom[box] = ~@])

\* the user moves a radius slider
UserSlides ==
    /\ used.events < MaxEvents
    /\ \/ \E r \in Radii \ {dom.placesRadius} :
              Commit([W EXCEPT !.used.events = @ + 1,
                               !.used.placesInputs = @ + 1,
                               !.dom.placesRadius = r])
       \/ \E r \in FeatureRadii \ {dom.featuresRadius} :
              Commit([W EXCEPT !.used.events = @ + 1,
                               !.used.featuresInputs = @ + 1,
                               !.dom.featuresRadius = r])

ChatKeys == {"u", "e", "r", "p", "f", "w"}

\* what the backend holds after it generated a route in the conversation:
\* the route from B to A
GeneratedRoute ==
    [origin |-> "B", destination |-> "A", waypoints |-> <<>>,
     route_data |-> Some(Polyline([origin |-> Val(Geocode("B", TRUE)),
                                   destination |-> Val(Geocode("A", TRUE)),
                                   waypoints |-> <<>>]))]

\* the user sends a chat message (sidebar.js 43-48: on the chat tab); the
\* backend answers with one message; a route_generated message follows a
\* route the backend generated; or the backend answers non-2xx
UserChats ==
    /\ used.events < MaxEvents
    /\ reader \notin {"connecting", "open"}
    /\ \/ \E key \in ChatKeys :
              LET w0 == [W EXCEPT !.used.events = @ + 1,
                                  !.used.chats = @ + 1,
                                  !.dom.activeTab = "chat",
                                  !.server =
                                      IF key = "r"
                                      THEN Some(GeneratedRoute)
                                      ELSE @]
                  w1 == ResponseOk(sendMessage(w0, Encode(key)))
              IN Commit(ProcessFragment([w1 EXCEPT !.pos = Len(w1.stream)],
                                        w1.stream))
       \/ Commit(ResponseFailed(sendMessage(
                      [W EXCEPT !.used.events = @ + 1, !.used.chats = @ + 1,
                                !.dom.activeTab = "chat"], <<>>)))

\* a POST /geocode is answered
GeocodeResponse ==
    \E i \in 1..Len(flows), ok \in BOOLEAN :
        /\ flows[i].pc \in {"geocode", "geocodeOrigin", "geocodeDestination",
                            "geocodeWaypoint"}
        /\ Commit(GeocodeDone(W, i, ok))

\* a POST /route is answered
RouteResponse ==
    \E i \in 1..Len(flows), outcome \in {"ok", "nopolyline", "error"} :
        /\ flows[i].pc = "routeRequest"
        /\ Commit(RouteDone(W, i, outcome))

\* a POST /update_conversation_state is answered
UpdateStateResponse ==
    \E i \in 1..Len(flows), ok \in BOOLEAN :
        /\ flows[i].pc = "updateState"
        /\ Commit(UpdateStateDone(W, i, ok))

\* a POST /places is answered
PlacesResponse ==
    \E i \in 1..Len(flows), ok \in BOOLEAN :
        /\ flows[i].pc = "placesRequest"
        /\ Commit(PlacesDone(W, i, ok))

\* a POST /update_places_data is answered
UpdatePlacesResponse ==
    \E i \in 1..Len(flows) :
        /\ flows[i].pc = "updatePlaces"
        /\ Commit(UpdatePlacesDone(W, i))

\* a POST /natural_features is answered
FeaturesResponse ==
    \E i \in 1..Len(flows), ok \in BOOLEAN :
        /\ flows[i].pc = "featuresRequest"
        /\ Commit(FeaturesDone(W, i, ok))

\* a POST /update_features_data is answered
UpdateFeaturesResponse ==
    \E i \in 1..Len(flows) :
        /\ flows[i].pc = "updateFeatures"
        /\ Commit(UpdateFeaturesDone(W, i))

\* a GET /get_current_route is answered
CurrentRouteResponse ==
    \E i \in 1..Len(flows), ok \in BOOLEAN :
        /\ flows[i].pc = "getCurrentRoute"
        /\ Commit(CurrentRouteDone(W, i, ok))

Next ==
    \/ UserTypes
    \/ UserClicks
    \/ UserChecks
    \/ UserSlides
    \/ UserChats
    \/ StreamEnd
    \/ GeocodeResponse
    \/ RouteResponse
    \/ UpdateStateResponse
    \/ PlacesResponse
    \/ UpdatePlacesResponse
    \/ FeaturesResponse
    \/ UpdateFeaturesResponse
    \/ CurrentRouteResponse

Spec == Init /\ [][Next]_vars

\* Spec, when every request that a generateRoute call awaits is answered
SpecSettling ==
    /\ Spec
    /\ WF_vars(GeocodeResponse)
    /\ WF_vars(RouteResponse)
    /\ WF_vars(UpdateStateResponse)
    /\ WF_vars(PlacesResponse)
    /\ WF_vars(UpdatePlacesResponse)
    /\ WF_vars(FeaturesResponse)
    /\ WF_vars(UpdateFeaturesResponse)

(***************************************************************************)
(* Properties of the decoder, checked under SpecDecoder.                   *)
(***************************************************************************)
IsPrefix(s, t) == Len(s) <= Len(t) /\ SubSeq(t, 1, Len(s)) = s

IsTerminal(call) == call.cb \in {"onComplete", "onError"}

\* the callbacks of the decoder when the whole text arrives as one fragment
WholeText ==
    ProcessFragment([ResponseOk(W) EXCEPT !.calls = <<>>, !.pos = Len(stream)],
                    stream)

\* C1: however the text of well-formed messages is cut into fragments, the
\* decoder invokes the callbacks, with the same arguments, that it invokes
\* when the whole text arrives as one fragment: the same sequence once all
\* of the text has arrived or the reader was cancelled, the same sequence
\* followed by the same completion when the stream has ended, and a prefix
\* of it while text is outstanding.
FragmentationInvariance ==
    /\ reader = "open" => IsPrefix(calls, WholeText.calls)
    /\ (reader = "cancelled" \/ (reader = "open" /\ pos = Len(stream)))
         => calls = WholeText.calls /\ reader = WholeText.reader
    /\ reader = "done"
         => WholeText.reader = "open" /\ calls = ProcessDone(WholeText).calls

\* a fragment ended between the two newlines of a delimiter, after a callback
CutInsideDelimiter ==
    /\ reader = "open"
    /\ calls # <<>>
    /\ buffer # <<>>
    /\ buffer[Len(buffer)] = "\n"

\* the keys of the messages of a text, in order
RECURSIVE KeysOf(_, _)
KeysOf(text, i) ==
    IF i > Len(text)
    THEN <<>>
    ELSE IF text[i + Len(Prefix) + 1] = "C3"
    THEN <<"E9">> \o KeysOf(text, i + Len(Encode("E9")))
    ELSE <<text[i + Len(Prefix) + 1]>> \o KeysOf(text, i + Len(Encode("h")))

\* does the handling of this message end with reader.cancel()?
Stops(key) ==
    \/ JSONObjects[key].status # Undefined
    \/ Truthy(JSONObjects[key].error)

\* the message at which the reader was cancelled: the first one that stops
StoppedAt ==
    LET keys == KeysOf(stream, 1)
        first == CHOOSE i \in DOMAIN keys :
                     Stops(keys[i]) /\ \A j \in 1..(i - 1) : ~Stops(keys[j])
    IN JSONObjects[keys[first]]

StatusAndError(data) == data.status # Undefined /\ Truthy(data.error)

OneTerminalCallback ==
    /\ Cardinality({i \in DOMAIN calls : IsTerminal(calls[i])}) <= 1
    /\ \A i \in DOMAIN calls, j \in DOMAIN calls :
           (i < j /\ IsTerminal(calls[i])) => calls[j].cb # "onChunk"

\* an error message ended a stream after a chunk
TerminalAfterChunk ==
    /\ Len(calls) = 2
    /\ calls[1].cb = "onChunk"
    /\ calls[2].cb = "onError"
    /\ reader = "cancelled"

\* how often a callback was invoked
Invocations(cb) == Cardinality({i \in DOMAIN calls : calls[i].cb = cb})

\* C18: when the response to POST /chat/stream is not 2xx, when the request
\* is rejected and when a read of the stream is rejected, onError is invoked
\* exactly once, as the last callback of the stream, and onComplete is not
\* invoked.
StreamFailureIsOneError ==
    reader \in {"failed", "errored"} =>
        /\ Invocations("onError") = 1
        /\ Invocations("onComplete") = 0
        /\ calls[Len(calls)].cb = "onError"

\* a read of the stream was rejected after a chunk had been delivered
ReadRejectedAfterChunk ==
    /\ reader = "errored"
    /\ Len(calls) = 2
    /\ calls[1].cb = "onChunk"

(***************************************************************************)
(* Properties of the session, checked under Spec.                          *)
(***************************************************************************)
\* C4: whenever the session route is replaced by a newly fetched route, the
\* cached places and the cached features are both absent right after the
\* replacement, however the route generation interleaves with places and
\* features fetches.
RouteReplacementClearsCaches ==
    [][currentRoute' # currentRoute =>
           currentPlaces' = Null /\ currentFeatures' = Null]_vars

\* C5: whenever getPlaces or getNaturalFeatures serves a request from the
\* cache, what it serves was fetched for the polyline of the session route
\* and with the radius that is selected.
CacheServesSessionRoute ==
    \A i \in DOMAIN log :
        log[i].url \in {"cache:/places", "cache:/natural_features"} =>
            /\ log[i].sessionRoute # Null
            /\ Val(log[i].sessionRoute).polyline_coords =
                   Some(log[i].served.polyline_coords)
            /\ log[i].served.radius_m = log[i].radius

\* C6: while the session route and the selected radius stay the same, at
\* most one POST /places is sent, and at most one POST /natural_features:
\* no two such requests are sent under the same session route with no
\* slider input between them.
OneRequestPerRouteAndRadius ==
    ~ \E i \in DOMAIN log, j \in DOMAIN log :
          /\ i < j
          /\ log[i].url \in {"/places", "/natural_features"}
          /\ log[j].url = log[i].url
          /\ log[j].route = log[i].route
          /\ log[j].slider = log[i].slider

\* C7: once a route_generated event was handled, the check for a route
\* update got the generated route and filled the form with it, and every
\* flow has settled without a failed route generation, the session route is
\* the generated route and it is drawn, with its distance and duration.
GeneratedRouteShown ==
    (/\ stream = Encode("r")
     /\ reader = "cancelled"
     /\ flows = <<>>
     /\ dom.activeTab = "info"
     /\ dom.alerts = 0
     /\ dom.origin = GeneratedRoute.origin
     /\ dom.destination = GeneratedRoute.destination)
    => /\ currentRoute # Null
       /\ Val(currentRoute).polyline_coords = GeneratedRoute.route_data
       /\ Val(GeneratedRoute.route_data) \in map.routeLayer
       /\ dom.routeInfo = Some(<<Val(currentRoute).distance_text,
                                 Val(currentRoute).duration_text>>)

\* C8: the handling of a waypoint_added event with a waypoint, in a form
\* that names origin and destination, appends one waypoint to the form and
\* starts the generation of a new route with it: a generateRoute call that
\* geocodes the inputs and sends POST /route.
WaypointAddedRequestsRoute ==
    [][(/\ used.chats' = used.chats + 1
        /\ stream' = Encode("w")
        /\ dom.origin # ""
        /\ dom.destination # "")
       => /\ dom'.waypoints = Append(dom.waypoints, JSONObjects["w"].waypoint)
          /\ \E i \in DOMAIN flows' :
                 /\ i > Len(flows)
                 /\ flows'[i].kind = "generateRoute"
                 /\ flows'[i].L.waypointInputs = dom'.waypoints]_vars

\* the polyline of the route for the inputs of the form
InputsPolyline(e) ==
    Polyline([origin |-> Val(Geocode(e.originInput, TRUE)),
              destination |-> Val(Geocode(e.destinationInput, TRUE)),
              waypoints |-> [j \in 1..Len(e.waypointInputs) |->
                                Val(Geocode(e.waypointInputs[j], TRUE))]])

\* C9: generateRoute reuses the route in memory, without a POST /route,
\* only when origin, destination and waypoints of the form are those the
\* route was computed for.
ReuseOnlyForSameInputs ==
    \A i \in DOMAIN log :
        log[i].url = "reuse:/route" =>
            log[i].routeData.polyline_coords = Some(InputsPolyline(log[i]))

\* what a step added to the log
Logged == SubSeq(log', Len(log) + 1, Len(log'))

\* C10: a places_requested (features_requested) event with the show flag,
\* handled while the session route has a polyline, starts no route
\* generation and calls getPlaces (getNaturalFeatures) with the polyline of
\* that route: the request is sent exactly when nothing is cached or the
\* cached radius differs from the selected one, and otherwise what is
\* cached is shown again without a request.
RequestedEventUsesSessionRoute ==
    [][(/\ used.chats' = used.chats + 1
        /\ currentRoute # Null
        /\ Val(currentRoute).polyline_coords # Null)
       => LET polylineCoords == Val(Val(currentRoute).polyline_coords) IN
          /\ stream' = Encode("p") =>
                 /\ dom'.showPlaces
                 /\ Len(Logged) = 1
                 /\ Logged[1].polyline_coords = polylineCoords
                 /\ IF \/ currentPlaces = Null
                       \/ Val(currentPlaces).radius # dom.placesRadius
                    THEN /\ Logged[1].url = "/places"
                         /\ Logged[1].radius = dom.placesRadius
                         /\ Len(flows') = Len(flows) + 1
                         /\ flows'[Len(flows')].pc = "placesRequest"
                    ELSE /\ Logged[1].url = "cache:/places"
                         /\ flows' = flows
                         /\ map'.placesLayer = Some(Val(currentPlaces).data)
                         /\ dom'.placesList = <<"list", Val(currentPlaces).data>>
          /\ stream' = Encode("f") =>
                 /\ dom'.showFeatures
                 /\ Len(Logged) = 1
                 /\ Logged[1].polyline_coords = polylineCoords
                 /\ IF \/ currentFeatures = Null
                       \/ Val(currentFeatures).radius # dom.featuresRadius
                    THEN /\ Logged[1].url = "/natural_features"
                         /\ Logged[1].radius = dom.featuresRadius
                         /\ Len(flows') = Len(flows) + 1
                         /\ flows'[Len(flows')].pc = "featuresRequest"
                    ELSE /\ Logged[1].url = "cache:/natural_features"
                         /\ flows' = flows
                         /\ map'.featuresLayer =
                                Some(Val(currentFeatures).data)
                         /\ dom'.featuresList =
                                <<"list", Val(currentFeatures).data>>]_vars

\* two places_requested events in a session with a route: the second one was
\* served from the cache
PlacesRequestedServedFromCache ==
    /\ used.chats = 2
    /\ used.events = 2
    /\ stream = Encode("p")
    /\ currentRoute # Null
    /\ log[Len(log)].url = "cache:/places"

\* C11: the handling of a places_requested event with the show flag, in a
\* session without a route, starts a route generation (a generateRoute call
\* that has not yet sent POST /route) and sends no POST /places itself, and
\* it invokes onComplete with the message of the event in the same step,
\* before any response to the route request.
PlacesRequestedStartsRoute ==
    [][(/\ used.chats' = used.chats + 1
        /\ stream' = Encode("p")
        /\ currentRoute = Null)
       => /\ dom'.showPlaces
          /\ \E i \in DOMAIN flows' :
                 /\ i > Len(flows)
                 /\ flows'[i].kind = "generateRoute"
                 /\ flows'[i].pc = "geocodeOrigin"
                 /\ flows'[i].L.showPlaces
          /\ \A j \in DOMAIN Logged : Logged[j].url # "/places"
          /\ calls' = <<[cb |-> "onComplete",
                         result |-> [responseText |-> JSONObjects["p"].message,
                                     requiresUpdate |-> "false"]]>>]_vars

(***************************************************************************)
(* SpecMessages: one chat stream of chunk, complete and error messages and *)
(* of messages whose JSON is cut short, which may end with a message that  *)
(* lacks its delimiter, delivered in fragments of any length.               *)
(***************************************************************************)
\* a message whose payload is cut short: JSON.parse throws a SyntaxError
Malformed == Prefix \o <<"{", "h">> \o Delimiter

\* a well-formed message without the delimiter
Unterminated(key) == Prefix \o <<"{">> \o Bytes(key) \o <<"}">>

PlainKeys == {"h", "E9", "c", "u", "e"}

TailKeys == {"u", "e", "r"}

\* the texts of at most n terminated messages
RECURSIVE PlainTexts(_)
PlainTexts(n) ==
    IF n = 0
    THEN {<<>>}
    ELSE LET shorter == PlainTexts(n - 1)
         IN shorter \cup {t \o Encode(k) : t \in shorter, k \in PlainKeys}
                    \cup {t \o Malformed : t \in shorter}

Tails == {<<>>} \cup {Unterminated(k) : k \in TailKeys}

InitMessages ==
    \E text \in PlainTexts(MaxMsgs), tail \in Tails :
        Start(sendMessage(PageLoaded, text \o tail))

SpecMessages == InitMessages /\ [][NextDecoder]_vars

(***************************************************************************)
(* SpecClose: the chat stream of SpecDecoder with a caller that closes the *)
(* handle it got from streamChatMessage.                                   *)
(***************************************************************************)
Closed == \E i \in DOMAIN log : log[i].url = "close:/chat/stream"

\* the caller closes the handle of a stream that has not ended
Close ==
    /\ reader \in {"connecting", "open"}
    /\ ~Closed
    /\ Commit(close(W))

NextClose ==
    \/ Connect
    \/ ConnectFail
    \/ \E n \in 1..Len(stream) : Read(n)
    \/ StreamEnd
    \/ ReadFail
    \/ Close

SpecClose == InitDecoder /\ [][NextClose]_vars

(***************************************************************************)
(* Properties of the decoder, checked under SpecMessages.                  *)
(***************************************************************************)
\* the terminated messages of a text: the decoded object of each, or null
\* for one that is not a data: message with valid JSON
Sent(text) ==
    LET lines == Split(Decode(<<>>, text, 1, <<>>).text, 1, <<>>, <<>>)
    IN [j \in 1..(Len(lines) - 1) |->
           IF StartsWith(lines[j], Prefix)
           THEN JSONparse(SubSeq(lines[j], Len(Prefix) + 1, Len(lines[j])))
           ELSE Null]

\* the chunk texts of the onChunk calls, concatenated in order
RECURSIVE ChunksDelivered(_, _)
ChunksDelivered(cs, i) ==
    IF i > Len(cs)
    THEN ""
    ELSE IF cs[i].cb = "onChunk"
    THEN cs[i].chunk \o ChunksDelivered(cs, i + 1)
    ELSE ChunksDelivered(cs, i + 1)

\* requires_ui_update of the last complete message of a text, false if none
LastCompleteFlag(text) ==
    LET sent == Sent(text)
        completes == {j \in DOMAIN sent :
                         sent[j] # Null /\ Truthy(Val(sent[j]).complete)}
    IN IF completes = {}
       THEN "false"
       ELSE LET last == CHOOSE j \in completes : \A k \in completes : k <= j
            IN OrElse(Val(sent[last]).requires_ui_update, "false")

\* C12: when the stream ends and no terminal callback was invoked before,
\* onComplete is invoked once: its responseText is the concatenation, in
\* order, of the chunks passed to onChunk, and its requiresUpdate is the
\* requires_ui_update of the last complete message of the stream, false when
\* there was none.
CompletionAtStreamEnd ==
    reader = "done" =>
        /\ Cardinality({i \in DOMAIN calls : IsTerminal(calls[i])}) = 1
        /\ calls[Len(calls)] =
               [cb |-> "onComplete",
                result |-> [responseText |->
                                ChunksDelivered(calls, 1),
                            requiresUpdate |-> LastCompleteFlag(stream)]]

\* a stream of two chunks has ended
StreamEndedAfterChunks ==
    /\ reader = "done"
    /\ Len(calls) = 3
    /\ calls[1].cb = "onChunk"
    /\ calls[2].cb = "onChunk"
    /\ calls[1].chunk # calls[2].chunk

\* a text without its malformed messages
RECURSIVE WithoutMalformed(_, _)
WithoutMalformed(text, i) ==
    IF i > Len(text)
    THEN <<>>
    ELSE IF /\ i + Len(Malformed) - 1 <= Len(text)
            /\ SubSeq(text, i, i + Len(Malformed) - 1) = Malformed
    THEN WithoutMalformed(text, i + Len(Malformed))
    ELSE <<text[i]>> \o WithoutMalformed(text, i + 1)

\* the stream of a text that has arrived as one fragment, in a session that
\* started as the page just loaded
Arrived(text) ==
    LET w == ResponseOk(sendMessage(PageLoaded, text))
    IN ProcessFragment([w EXCEPT !.pos = Len(text)], text)

\* what the decoder has dispatched and what it remembers
Dispatched(w) ==
    [calls |-> w.calls, reader |-> w.reader, fullResponse |-> w.fullResponse,
     requiresUpdate |-> w.requiresUpdate, bubble |-> w.bubble,
     flows |-> w.flows, dom |-> w.dom]

\* C13: a data: message whose payload is not valid JSON invokes no callback
\* and does not end the stream: once all of the text has arrived, and after
\* the stream has ended, the callbacks invoked (with their arguments), the
\* remembered text and flag and the state of the reader are those of the
\* same text without the malformed messages.
MalformedSkipped ==
    LET clean == Arrived(WithoutMalformed(stream, 1)) IN
    /\ (reader = "cancelled" \/ (reader = "open" /\ pos = Len(stream)))
         => Dispatched(W) = Dispatched(clean)
    /\ (reader = "open" /\ pos = Len(stream)) => buffer = clean.buffer
    /\ reader = "done"
         => clean.reader = "open" /\ Dispatched(W) = Dispatched(ProcessDone(clean))

\* the chunk of the message that follows a malformed message was delivered
ChunkAfterMalformed ==
    /\ Len(stream) > Len(Malformed)
    /\ SubSeq(stream, 1, Len(Malformed)) = Malformed
    /\ calls = <<[cb |-> "onChunk", chunk |-> "Hi"]>>
    /\ reader = "open"
    /\ pos = Len(stream)

\* a text up to its last delimiter: without the content that follows it
RECURSIVE Terminated(_, _)
Terminated(text, n) ==
    IF n < Len(Delimiter)
    THEN <<>>
    ELSE IF SubSeq(text, n - Len(Delimiter) + 1, n) = Delimiter
    THEN SubSeq(text, 1, n)
    ELSE Terminated(text, n - 1)

\* C20: content of the stream that follows the last delimiter is never
\* parsed: it stays in the buffer and invokes no callback, and when the
\* stream ends the callbacks invoked, the completion among them, are those
\* of the text without that content, also when the content is a well-formed
\* complete, status or error message.
UnterminatedTailDiscarded ==
    LET body == Terminated(stream, Len(stream)) IN
    /\ (reader = "open" /\ pos = Len(stream)) =>
           /\ Dispatched(W) = Dispatched(Arrived(body))
           /\ buffer = SubSeq(stream, Len(body) + 1, Len(stream))
    /\ reader = "done" =>
           Dispatched(W) = Dispatched(ProcessDone(Arrived(body)))

\* the stream has ended with an error message without delimiter in the
\* buffer, after a chunk
StreamEndedWithTail ==
    /\ reader = "done"
    /\ buffer = Unterminated("e")
    /\ Len(calls) = 2
    /\ calls[1].cb = "onChunk"
    /\ calls[2].cb = "onComplete"

(***************************************************************************)
(* Further properties of the session, checked under Spec.                  *)
(***************************************************************************)
\* C14: the handling of an error event of the chat stream invokes onError
\* with the error, which shows the error text in the pending assistant
\* bubble, marked as an error and without cursor, and it leaves the session
\* state as it was: currentRoute, currentPlaces and currentFeatures have the
\* values they had before the event.
ErrorEventLeavesStore ==
    [][(used.chats' = used.chats + 1 /\ stream' = Encode("e"))
       => /\ calls' = <<[cb |-> "onError", error |-> JSONObjects["e"].error]>>
          /\ bubble' = [text |-> ErrorText, cursor |-> FALSE, error |-> TRUE]
          /\ currentRoute' = currentRoute
          /\ currentPlaces' = currentPlaces
          /\ currentFeatures' = currentFeatures]_vars

\* an error event was handled in a session with a route and cached places
ErrorEventWithCache ==
    /\ stream = Encode("e")
    /\ reader = "cancelled"
    /\ bubble.error
    /\ currentRoute # Null
    /\ currentPlaces # Null

\* the checkForRouteUpdate calls that await the backend
RouteUpdateChecks(fs) ==
    Cardinality({i \in DOMAIN fs : fs[i].kind = "checkForRouteUpdate"})

\* a step in which a stream completes: onComplete is its last callback
CompletionStep ==
    /\ used.chats' = used.chats + 1 \/ (reader = "open" /\ reader' = "done")
    /\ calls' # <<>>
    /\ calls'[Len(calls')].cb = "onComplete"

\* the flag of the completion decides whether checkForRouteUpdate is called
UpdateFlagDecides ==
    CompletionStep =>
        RouteUpdateChecks(flows') =
            RouteUpdateChecks(flows)
                + (IF Truthy(calls'[Len(calls')].result.requiresUpdate)
                   THEN 1 ELSE 0)

\* a step in which a checkForRouteUpdate call returns
RouteUpdateCheckReturns == RouteUpdateChecks(flows') < RouteUpdateChecks(flows)

\* C15 as claimed: a completion with requires_ui_update set calls
\* checkForRouteUpdate, one without it does not, and every
\* checkForRouteUpdate call has switched the active tab to the info view
\* when it returns.
UpdateAlwaysSwitchesToInfo ==
    [][/\ UpdateFlagDecides
       /\ RouteUpdateCheckReturns => dom'.activeTab = "info"]_vars

\* C15 as amended: a completion with requires_ui_update set calls
\* checkForRouteUpdate, one without it does not.  When the backend answers
\* with a current route, the call fills the form with it and has switched
\* the active tab to the info view when it returns; when the backend has no
\* route (404) or the request fails, the call returns without switching the
\* tab or changing anything else.
UpdateSwitchesToInfoWithRoute ==
    [][/\ UpdateFlagDecides
       /\ RouteUpdateCheckReturns =>
              \/ /\ server # Null
                 /\ dom'.activeTab = "info"
                 /\ dom'.origin = Val(server).origin
                 /\ dom'.destination = Val(server).destination
                 /\ dom'.waypoints = Val(server).waypoints
              \/ /\ Len(flows') = Len(flows) - 1
                 /\ UNCHANGED <<dom, map, log, currentRoute, currentPlaces,
                                currentFeatures>>
       /\ (RouteUpdateCheckReturns /\ server = Null) => dom' = dom]_vars

\* a stream completed with the flag set, the backend answered the check
\* with its route and the info tab is shown
TabSwitchedAfterUpdate ==
    /\ stream = Encode("u")
    /\ reader = "done"
    /\ calls[Len(calls)].result.requiresUpdate = "true"
    /\ RouteUpdateChecks(flows) = 0
    /\ server # Null
    /\ dom.activeTab = "info"
    /\ used.chats = 1

(***************************************************************************)
(* Property of the stream handle, checked under SpecClose.                 *)
(***************************************************************************)
\* C16: once the caller has called close() on the handle it got from
\* streamChatMessage, no further fragment of the stream is decoded and no
\* callback or side effect is dispatched for it: the buffer, the callbacks
\* invoked, the bubble, the form and the outstanding requests stay as they
\* are.
CloseStopsStream ==
    [][Closed => UNCHANGED <<calls, buffer, decoder, fullResponse,
                             requiresUpdate, bubble, dom, flows>>]_vars

(***************************************************************************)
(* Property of the route generation, checked under SpecSettling.           *)
(***************************************************************************)
\* the generateRoute calls that await a request, their own or that of the
\* getPlaces or getNaturalFeatures call they await
Generating(fs) ==
    Cardinality({i \in DOMAIN fs :
                    \/ fs[i].kind = "generateRoute"
                    \/ /\ fs[i].kind \in {"getPlaces", "getNaturalFeatures"}
                       /\ fs[i].k # Null})

\* the generateRoute call that awaited the answer to its request at pc has
\* ended with this step
EndedAt(pc) ==
    \E i \in DOMAIN flows :
        /\ flows[i].kind = "generateRoute"
        /\ flows[i].pc = pc
        /\ flows' = RemoveAt(flows, i)

\* C17: a generateRoute call shows the loading indicator when it starts and
\* has hidden it when it ends, so that the indicator is hidden whenever no
\* call is outstanding and, when every request is answered, a shown
\* indicator is eventually hidden.  A call ends either with the results
\* panel shown and no alert, or with an alert and without showing the
\* results panel; it ends with an alert when the origin or the destination
\* does not geocode, when POST /route fails and when the route data has no
\* polyline.
LoadingShownThenHidden ==
    /\ [][/\ Generating(flows') > Generating(flows) => dom'.loading
          /\ Generating(flows') = 0 => ~dom'.loading
          /\ Generating(flows') < Generating(flows) =>
                 /\ ~dom'.loading
                 /\ \/ dom'.results /\ dom'.alerts = dom.alerts
                    \/ /\ dom'.alerts = dom.alerts + 1
                       /\ dom'.results = dom.results
          /\ (EndedAt("geocodeDestination") \/ EndedAt("routeRequest")) =>
                 /\ dom'.alerts = dom.alerts + 1
                 /\ dom'.results = dom.results
                 /\ ~dom'.loading]_vars
    /\ dom.loading ~> ~dom.loading

\* a route generation failed at POST /route: the alert was shown, the
\* loading indicator is hidden and the results panel is not shown
RouteRequestFailed ==
    /\ dom.alerts = 1
    /\ ~dom.loading
    /\ ~dom.results
    /\ flows = <<>>
    /\ \E i \in DOMAIN log : log[i].url = "/route" /\ i > 1

(***************************************************************************)
(* Further properties of the decoder, checked under SpecDecoder.           *)
(***************************************************************************)
\* the session in which the stream was opened: no flow of the session
\* progresses while the stream is read
SessionAtOpen == IF currentRoute = Null THEN PageLoaded ELSE SessionWithRoute

\* the text of the first n of the messages with these keys
RECURSIVE TextOf(_, _)
TextOf(keys, n) ==
    IF n = 0 THEN <<>> ELSE TextOf(keys, n - 1) \o Encode(keys[n])

\* the text of the stream up to its first message with a recognized status
\* or an error field, that message included
TextToFirstStop ==
    LET keys == KeysOf(stream, 1)
        first == CHOOSE i \in DOMAIN keys :
                     Stops(keys[i]) /\ \A j \in 1..(i - 1) : ~Stops(keys[j])
    IN TextOf(keys, first)

\* C19: once a message with a recognized status or with an error field has
\* been handled, the reader is cancelled and no further read is issued, and
\* what has been dispatched (callbacks with their arguments, bubble, form,
\* requests started) is what the text up to and including that message
\* dispatches: no later message, in the same fragment or in a later one, has
\* caused a callback or a side effect.
TerminalMessageEndsStream ==
    (/\ \E i \in DOMAIN KeysOf(stream, 1) : Stops(KeysOf(stream, 1)[i])
     /\ pos >= Len(TextToFirstStop))
    => LET text == TextToFirstStop
           w == ResponseOk(sendMessage(SessionAtOpen, text))
           expected == ProcessFragment([w EXCEPT !.pos = Len(text)], text)
       IN /\ reader = "cancelled"
          /\ Dispatched(W) = Dispatched(expected)

\* a terminal message and the message after it arrived in one fragment
MessageAfterTerminalArrived ==
    /\ Len(KeysOf(stream, 1)) = 2
    /\ Stops(KeysOf(stream, 1)[1])
    /\ reader = "cancelled"
    /\ pos = Len(stream)
    /\ Len(calls) = 1

(***************************************************************************)
(* Further properties of the decoder, checked under SpecMessages.          *)
(***************************************************************************)
\* the terminated messages that have been delivered to the reader
Seen == Sent(SubSeq(stream, 1, pos))

\* has a message with an error field been delivered?
ErrorSeen == \E j \in DOMAIN Seen : Seen[j] # Null /\ Truthy(Val(Seen[j]).error)

\* the onChunk calls of the chunk fields of decoded messages, in order
RECURSIVE ChunkCalls(_, _)
ChunkCalls(sent, j) ==
    IF j > Len(sent)
    THEN <<>>
    ELSE IF sent[j] # Null /\ Truthy(Val(sent[j]).chunk)
    THEN <<[cb |-> "onChunk", chunk |-> Val(sent[j]).chunk]>>
             \o ChunkCalls(sent, j + 1)
    ELSE ChunkCalls(sent, j + 1)

\* C21: a message with a complete field does not end the stream and invokes
\* no terminal callback: the reader is cancelled only by a message with an
\* error field, and while none has been delivered and the stream is open
\* the callbacks invoked are exactly the onChunk calls of the chunk messages
\* delivered, those after a complete message included, the accumulated
\* response is their concatenation and the remembered flag is the
\* requires_ui_update of the last complete message delivered.
CompleteKeepsReading ==
    /\ reader = "cancelled" => ErrorSeen
    /\ (reader = "open" /\ ~ErrorSeen) =>
           /\ calls = ChunkCalls(Seen, 1)
           /\ fullResponse = ChunksDelivered(calls, 1)
           /\ requiresUpdate = LastCompleteFlag(SubSeq(stream, 1, pos))

\* a chunk message was delivered after a complete message with the flag set
ChunkAfterComplete ==
    /\ stream = Encode("u") \o Encode("h")
    /\ pos = Len(stream)
    /\ reader = "open"
    /\ calls = <<[cb |-> "onChunk", chunk |-> "Hi"]>>
    /\ fullResponse = "Hi"
    /\ requiresUpdate = "true"

(***************************************************************************)
(* Further properties of the route generation, checked under Spec.         *)
(***************************************************************************)
\* C22: a generateRoute call goes on to the waypoints and to POST /route
\* only with the coordinates of both the origin and the destination; when
\* one of them does not geocode, the call ends once both geocode requests
\* are answered: it sends no POST /route, it leaves the session route as it
\* was and it shows an alert.
GeocodeFailureStopsGeneration ==
    [][/\ \A i \in DOMAIN flows' :
              (/\ flows'[i].kind = "generateRoute"
               /\ flows'[i].pc \in {"geocodeWaypoint", "routeRequest",
                                    "updateState"})
              => /\ flows'[i].L.origin # Null
                 /\ flows'[i].L.destination # Null
       /\ EndedAt("geocodeDestination") =>
              /\ dom'.alerts = dom.alerts + 1
              /\ currentRoute' = currentRoute
              /\ \A j \in DOMAIN Logged : Logged[j].url # "/route"]_vars

\* in a session with a route a new route generation has ended at the
\* geocoding: the alert was shown, no second POST /route was sent and the
\* session route is still there
GeocodingFailed ==
    /\ dom.alerts = 1
    /\ flows = <<>>
    /\ currentRoute # Null
    /\ dom.sampleRoute # Val(currentRoute).sampled_points
    /\ Cardinality({i \in DOMAIN log : log[i].url = "/route"}) = 1

(***************************************************************************)
(* Properties of the transport, checked under Spec.                        *)
(***************************************************************************)
\* the requests to url a step added to the log
NewRequests(url) ==
    Cardinality({j \in DOMAIN Logged : Logged[j].url = url})

Awaiting(fs, pc) == Cardinality({i \in DOMAIN fs : fs[i].pc = pc})

\* the calls of a request function a step started: each call is suspended
\* at its fetch until the response arrives in a later step
Started(pc) ==
    IF Awaiting(flows', pc) > Awaiting(flows, pc)
    THEN Awaiting(flows', pc) - Awaiting(flows, pc)
    ELSE 0

\* C23: the transport never retries: a step sends one POST /chat/stream per
\* call of streamChatMessage and one request per call of
\* generateRouteRequest, getPlacesRequest and getFeaturesRequest; a step in
\* which a response arrives, failed or not, sends no request again for the
\* call it answers, so that after a failure nothing is sent until the
\* operation is called again
NoRetries ==
    [][/\ chatRequests' - chatRequests =
              IF used.chats' = used.chats + 1 THEN 1 ELSE 0
       /\ NewRequests("/route") = Started("routeRequest")
       /\ NewRequests("/places") = Started("placesRequest")
       /\ NewRequests("/natural_features") = Started("featuresRequest")]_vars

\* a places request has failed, and it is the only one that was sent
PlacesRequestFailed ==
    /\ dom.placesList = <<"error">>
    /\ Cardinality({j \in DOMAIN log : log[j].url = "/places"}) = 1
    /\ Awaiting(flows, "placesRequest") = 0

(***************************************************************************)
(* Streams of segments: messages with one or two fields, status events     *)
(* with and without a message text, empty segments and segments that are   *)
(* not data: lines.                                                        *)
(***************************************************************************)
\* a segment without the data: prefix whose text from the seventh character
\* on is a valid JSON message
NotData == <<"e", "v", "e", "n", "t", ":", "{", "h", "}">> \o Delimiter

SegmentKeys == {"h", "b", "c", "e", "p", "n"}

\* the segments a text is made of; a delimiter alone closes an empty segment
Segments == {Encode(k) : k \in SegmentKeys} \cup {Delimiter, NotData}

\* the texts of at most n segments
RECURSIVE SegmentTexts(_)
SegmentTexts(n) ==
    IF n = 0
    THEN {<<>>}
    ELSE LET shorter == SegmentTexts(n - 1)
         IN shorter \cup {t \o g : t \in shorter, g \in Segments}

InitSegments ==
    \E text \in SegmentTexts(MaxMsgs) :
        Start(sendMessage(PageLoaded, text))

SpecSegments == InitSegments /\ [][NextDecoder]_vars

(***************************************************************************)
(* Properties of the decoder, checked under SpecSegments.                  *)
(***************************************************************************)
\* does a decoded message end the stream?
EndsStream(m) ==
    /\ m # Null
    /\ \/ Val(m).status \in {"route_generated", "places_requested",
                              "features_requested", "waypoint_added"}
       \/ Truthy(Val(m).error)

\* the chunk fields of decoded messages, concatenated in order
RECURSIVE ChunkText(_, _)
ChunkText(sent, j) ==
    IF j > Len(sent)
    THEN ""
    ELSE IF sent[j] # Null /\ Truthy(Val(sent[j]).chunk)
    THEN Val(sent[j]).chunk \o ChunkText(sent, j + 1)
    ELSE ChunkText(sent, j + 1)

\* the last message delivered has a chunk and a complete field, and no
\* message before it ended the stream
ChunkWithCompleteLast ==
    /\ Seen # <<>>
    /\ Seen[Len(Seen)] # Null
    /\ Truthy(Val(Seen[Len(Seen)]).chunk)
    /\ Truthy(Val(Seen[Len(Seen)]).complete)
    /\ \A k \in DOMAIN Seen : ~EndsStream(Seen[k])

\* C24: a message with a chunk and a complete field has both effects: its
\* chunk is passed to onChunk, after the chunks of the messages before it,
\* and appended to the accumulated response, and its requires_ui_update is
\* remembered; the message invokes no terminal callback and leaves the
\* stream open: a terminal callback follows only when the stream ends or
\* fails.
ChunkAndCompleteBothApply ==
    ChunkWithCompleteLast =>
        LET n == Len(ChunkCalls(Seen, 1)) IN
        /\ Len(calls) >= n
        /\ SubSeq(calls, 1, n) = ChunkCalls(Seen, 1)
        /\ fullResponse = ChunkText(Seen, 1)
        /\ requiresUpdate =
               OrElse(Val(Seen[Len(Seen)]).requires_ui_update, "false")
        /\ IF reader \in {"done", "errored"}
           THEN Len(calls) = n + 1
           ELSE Len(calls) = n /\ reader = "open"

\* a message with both fields was delivered after a chunk message and the
\* stream is still open
ChunkWithCompleteDelivered ==
    /\ ChunkWithCompleteLast
    /\ reader = "open"
    /\ Len(Seen) = 2
    /\ fullResponse = "HiOk"
    /\ requiresUpdate = "true"

(***************************************************************************)
(* The chat stream with a transport that makes progress: the pending       *)
(* fetch settles, and every reader.read() of the open stream settles, with *)
(* a fragment, with the end of the stream or with a failure.  The          *)
(* callbacks of settled promises are run by the event loop.                *)
(***************************************************************************)
SpecTransport ==
    /\ SpecSegments
    /\ WF_vars(Connect \/ ConnectFail)
    /\ WF_vars(StreamEnd \/ ReadFail \/ \E n \in 1..Len(stream) : Read(n))

\* C25: on every chat stream whose transport goes on until it signals the
\* end of the stream or fails, a terminal callback (onComplete or onError)
\* is eventually invoked, and the chat is idle again: the reader is not
\* read any more and the streaming cursor is removed from the bubble.
StreamReturnsToIdle ==
    <>[](/\ \E i \in DOMAIN calls : IsTerminal(calls[i])
         /\ reader \notin {"connecting", "open"}
         /\ ~bubble.cursor)

\* the stream has ended after a chunk, and the bubble is final
StreamEndedIdle ==
    /\ reader = "done"
    /\ Len(calls) = 2
    /\ calls[1].cb = "onChunk"
    /\ calls[2].cb = "onComplete"
    /\ ~bubble.cursor

(***************************************************************************)
(* Properties of the check for a route update, checked under Spec.         *)
(***************************************************************************)
\* must the places (features) of the route in memory be fetched?
PlacesStale ==
    currentPlaces = Null \/ Val(currentPlaces).radius # dom.placesRadius

FeaturesStale ==
    currentFeatures = Null \/ Val(currentFeatures).radius # dom.featuresRadius

\* the step left the lists and layers of the places (features) alone
PlacesUntouched ==
    /\ dom'.placesList = dom.placesList
    /\ map'.placesLayer = map.placesLayer

FeaturesUntouched ==
    /\ dom'.featuresList = dom.featuresList
    /\ map'.featuresLayer = map.featuresLayer

\* what a check for a route update does with the places and the features
\* of the route in memory
PlacesAndFeaturesChecked ==
    /\ NewRequests("/places") =
           IF dom.showPlaces /\ PlacesStale THEN 1 ELSE 0
    /\ NewRequests("cache:/places") =
           IF dom.showPlaces /\ ~PlacesStale THEN 1 ELSE 0
    /\ NewRequests("/natural_features") =
           IF dom.showFeatures /\ FeaturesStale THEN 1 ELSE 0
    /\ NewRequests("cache:/natural_features") =
           IF dom.showFeatures /\ ~FeaturesStale THEN 1 ELSE 0
    /\ \A j \in DOMAIN Logged :
           /\ Logged[j].url = "/places" => Logged[j].radius = dom.placesRadius
           /\ Logged[j].url = "/natural_features" =>
                  Logged[j].radius = dom.featuresRadius
    /\ IF dom.showPlaces /\ ~PlacesStale
       THEN /\ dom'.placesList = <<"list", Val(currentPlaces).data>>
            /\ map'.placesLayer = Some(Val(currentPlaces).data)
       ELSE PlacesUntouched
    /\ IF dom.showFeatures /\ ~FeaturesStale
       THEN /\ dom'.featuresList = <<"list", Val(currentFeatures).data>>
            /\ map'.featuresLayer = Some(Val(currentFeatures).data)
       ELSE FeaturesUntouched

\* C26: when a check for a route update returns and a route is held in
\* memory, either the backend had no route to report or its request failed,
\* and nothing was done, or the places (features) were handled only with
\* show-places (show-features) ticked: one request was sent when nothing is
\* cached or the cached radius differs from the selected one, and
\* otherwise the cached result was drawn and listed again without a
\* request.
RouteUpdateCheckUsesCache ==
    [][(/\ RouteUpdateCheckReturns
        /\ currentRoute # Null
        /\ Val(currentRoute).polyline_coords # Null)
       => \/ PlacesAndFeaturesChecked /\ server # Null
          \/ UNCHANGED <<dom, map, log, currentRoute, currentPlaces,
                         currentFeatures>>]_vars

\* a check for a route update has drawn the cached places again
RouteUpdateCheckServedFromCache ==
    /\ log # <<>>
    /\ log[Len(log)].url = "cache:/places"
    /\ dom.activeTab = "info"
    /\ calls # <<>>
    /\ calls[Len(calls)].cb = "onComplete"
    /\ Truthy(calls[Len(calls)].result.requiresUpdate)

(***************************************************************************)
(* Further properties of the decoder, checked under SpecSegments.          *)
(***************************************************************************)
\* the segments i.. of a split text that begin with the data: prefix, each
\* with its delimiter, followed by the incomplete last piece
RECURSIVE DataSegments(_, _)
DataSegments(lines, i) ==
    IF i >= Len(lines)
    THEN lines[Len(lines)]
    ELSE IF StartsWith(lines[i], Prefix)
    THEN lines[i] \o Delimiter \o DataSegments(lines, i + 1)
    ELSE DataSegments(lines, i + 1)

\* a text (of one-byte characters) without its empty segments and without
\* its segments that do not begin with the data: prefix
OnlyData(text) == DataSegments(Split(text, 1, <<>>, <<>>), 1)

\* C27: an empty segment and a complete segment that does not begin with
\* the data: prefix invoke no callback and change neither the accumulated
\* response nor the remembered flag: at every point of the stream, and
\* after its end or failure, the callbacks invoked (with their arguments),
\* the accumulated response, the flag, the reader and the bubble are those
\* of the text received so far without these segments.
SkippedSegmentsIgnored ==
    LET clean == Arrived(OnlyData(SubSeq(stream, 1, pos))) IN
    /\ reader \in {"open", "cancelled"} => Dispatched(W) = Dispatched(clean)
    /\ reader = "open" => buffer = clean.buffer
    /\ reader = "done"
         => clean.reader = "open" /\ Dispatched(W) = Dispatched(ProcessDone(clean))
    /\ reader = "errored"
         => clean.reader = "open" /\ Dispatched(W) = Dispatched(ProcessError(clean))

\* a segment without the data: prefix and an empty segment have arrived
\* after the response began, and no callback was invoked
SegmentsSkipped ==
    /\ stream = NotData \o Delimiter
    /\ pos = Len(stream)
    /\ reader = "open"
    /\ buffer = <<>>
    /\ calls = <<>>
    /\ fullResponse = ""

\* a decoded message with one of the four named statuses
IsStatusEvent(m) ==
    /\ m # Null
    /\ Val(m).status \in {"route_generated", "places_requested",
                           "features_requested", "waypoint_added"}

\* C28: when a named status event is the message that ends the stream, the
\* callbacks invoked are the onChunk calls of the chunks before it and then
\* one onComplete whose responseText is the message field of the event,
\* the empty text when the event has none, and not the chunk text
\* accumulated before; the text of the assistant bubble is replaced by it.
StatusMessageIsFinalText ==
    \A j \in DOMAIN Seen :
        (/\ IsStatusEvent(Seen[j])
         /\ \A k \in 1..(j - 1) : ~EndsStream(Seen[k]))
        => LET message == OrElse(Val(Seen[j]).message, "")
               chunks == ChunkCalls(SubSeq(Seen, 1, j - 1), 1)
           IN /\ reader = "cancelled"
              /\ calls = Append(chunks,
                                [cb |-> "onComplete",
                                 result |->
                                     [responseText |-> message,
                                      requiresUpdate |->
                                          OrElse(Val(Seen[j]).requires_ui_update,
                                                 "false")]])
              /\ fullResponse = message
              /\ bubble.text = message
              /\ ~bubble.cursor

\* a status event without a message field ended a stream that had
\* delivered a chunk: the bubble is empty
StatusEventWithoutMessageAfterChunk ==
    /\ reader = "cancelled"
    /\ Len(calls) = 2
    /\ calls[1] = [cb |-> "onChunk", chunk |-> "Hi"]
    /\ calls[2].cb = "onComplete"
    /\ calls[2].result.responseText = ""
    /\ bubble.text = ""

(***************************************************************************)
(* SpecTwoStreams: two chat messages sent one after the other, before the  *)
(* response of the first has begun.  chat.js has no guard against a second *)
(* send, so both streams are open at once and their fragments arrive in    *)
(* any order.  The reader, the decoder, buffer, fullResponse and           *)
(* requiresUpdate are locals of each streamChatMessage call, the bubble    *)
(* and its cursor are locals of each sendMessage call.  The variables hold *)
(* the locals of the second call; those of the first call are in a flow    *)
(* suspended at its read.                                                  *)
(***************************************************************************)
\* the locals of a streamChatMessage call and of the sendMessage call that
\* made it
Locals(w) ==
    [stream |-> w.stream, pos |-> w.pos, reader |-> w.reader,
     decoder |-> w.decoder, buffer |-> w.buffer,
     fullResponse |-> w.fullResponse, requiresUpdate |-> w.requiresUpdate,
     bubble |-> w.bubble, calls |-> w.calls]

\* Enter with buffer declared outside streamChatMessage: one buffer for
\* all calls
EnterSharedBuffer(w, i) ==
    LET L == w.flows[i].L IN
    [w EXCEPT !.stream = L.stream, !.pos = L.pos, !.reader = L.reader,
              !.decoder = L.decoder,
              !.fullResponse = L.fullResponse,
              !.requiresUpdate = L.requiresUpdate, !.bubble = L.bubble,
              !.calls = L.calls, !.flows[i].L = Locals(w)]

\* a callback of the call suspended as flow i runs in the scope of that call:
\* its locals are exchanged with those of the call the variables hold
Enter(w, i) ==
    LET L == w.flows[i].L IN
    [w EXCEPT !.stream = L.stream, !.pos = L.pos, !.reader = L.reader,
              !.decoder = L.decoder, !.buffer = L.buffer,
              !.fullResponse = L.fullResponse,
              !.requiresUpdate = L.requiresUpdate, !.bubble = L.bubble,
              !.calls = L.calls, !.flows[i].L = Locals(w)]

\* the texts of the two streams
TwoStreamTexts ==
    {Encode("h") \o Encode("u"), Encode("E9") \o Encode("e"),
     Encode("h") \o Encode("n")}

InitTwoStreams ==
    \E first \in TwoStreamTexts, second \in TwoStreamTexts :
        LET w1 == sendMessage(PageLoaded, first)
            w2 == [w1 EXCEPT !.flows = Append(@, [kind |-> "streamChatMessage",
                                                  pc |-> "read",
                                                  L |-> Locals(w1)])]
        IN Start(sendMessage(w2, second))

\* the flows that are suspended chat streams
OpenStreams == {i \in DOMAIN flows : flows[i].kind = "streamChatMessage"}

FirstConnect ==
    \E i \in OpenStreams :
        /\ flows[i].L.reader = "connecting"
        /\ Commit(Enter(ResponseOk(Enter(W, i)), i))

FirstConnectFail ==
    \E i \in OpenStreams :
        /\ flows[i].L.reader = "connecting"
        /\ Commit(Enter(ResponseFailed(Enter(W, i)), i))

FirstRead(n) ==
    \E i \in OpenStreams :
        LET L == flows[i].L IN
        /\ L.reader = "open"
        /\ L.pos + n <= Len(L.stream)
        /\ LET w == Enter(W, i)
           IN Commit(Enter(ProcessFragment(
                               [w EXCEPT !.pos = L.pos + n],
                               SubSeq(L.stream, L.pos + 1, L.pos + n)), i))

FirstStreamEnd ==
    \E i \in OpenStreams :
        /\ flows[i].L.reader = "open"
        /\ flows[i].L.pos = Len(flows[i].L.stream)
        /\ Commit(Enter(ProcessDone(Enter(W, i)), i))

FirstReadFail ==
    \E i \in OpenStreams :
        /\ flows[i].L.reader = "open"
        /\ Commit(Enter(ProcessError(Enter(W, i)), i))

MaxFragment == Len(Encode("h")) + Len(Encode("u"))

NextTwoStreams ==
    \/ Connect
    \/ ConnectFail
    \/ \E n \in 1..MaxFragment : Read(n)
    \/ StreamEnd
    \/ ReadFail
    \/ FirstConnect
    \/ FirstConnectFail
    \/ \E n \in 1..MaxFragment : FirstRead(n)
    \/ FirstStreamEnd
    \/ FirstReadFail

SpecTwoStreams == InitTwoStreams /\ [][NextTwoStreams]_vars

\* the locals of a call that is alone: it has received the first n bytes of
\* its text and its reader is in state rd
Alone(text, n, rd) ==
    LET sent == sendMessage(PageLoaded, text)
        received ==
            ProcessFragment([ResponseOk(sent) EXCEPT !.pos = n],
                            SubSeq(text, 1, n))
    IN Locals(IF rd = "connecting" THEN sent
              ELSE IF rd = "failed" THEN ResponseFailed(sent)
              ELSE IF rd = "done" THEN ProcessDone(received)
              ELSE IF rd = "errored" THEN ProcessError(received)
              ELSE received)

\* C29: with two chat streams open at the same time, under every
\* interleaving of their fragments the decode buffer, the accumulated
\* response, the update flag, the callbacks and the bubble of each stream
\* are those of that stream alone after the fragments it has received
\* itself: nothing of the other stream reaches them.
StreamsIsolated ==
    /\ Locals(W) = Alone(stream, pos, reader)
    /\ \A i \in OpenStreams :
           flows[i].L = Alone(flows[i].L.stream, flows[i].L.pos,
                              flows[i].L.reader)

\* both streams are in the middle of a message after each has delivered a
\* chunk to its own bubble
BothStreamsMidMessage ==
    /\ reader = "open"
    /\ buffer # <<>>
    /\ bubble.text = "E9"
    /\ \E i \in OpenStreams :
           /\ flows[i].L.reader = "open"
           /\ flows[i].L.buffer # <<>>
           /\ flows[i].L.bubble.text = "Hi"

(***************************************************************************)
(* Properties of the session route, checked under Spec.                    *)
(***************************************************************************)
\* C30: in every reachable state the session route, when present, has its
\* polyline coordinates: a route response without them never becomes the
\* session route.
SessionRouteHasPolyline ==
    currentRoute # Null => Val(currentRoute).polyline_coords # Null

(***************************************************************************)
(* Properties of overlapping route generations, checked under Spec.        *)
(***************************************************************************)
\* C31: the loading indicator is visible in every state in which at least
\* one route generation is still in flight, also when route generations
\* overlap.
LoadingWhileGenerating == Generating(flows) > 0 => dom.loading

(***************************************************************************)
(* Properties of the cached places and features, checked under Spec.       *)
(***************************************************************************)
\* C32: a cached places (features) result carries as its radius the radius
\* of the backend request that produced its data: a request with that
\* radius was sent, and the data are the backend's answer to it, whatever
\* radius is selected by now.
CachedRadiusIsRequestRadius ==
    /\ currentPlaces # Null =>
           \E j \in DOMAIN log :
               /\ log[j].url = "/places"
               /\ log[j].radius = Val(currentPlaces).radius
               /\ Val(currentPlaces).data =
                      PlacesData(log[j].polyline_coords, log[j].radius)
    /\ currentFeatures # Null =>
           \E j \in DOMAIN log :
               /\ log[j].url = "/natural_features"
               /\ log[j].radius = Val(currentFeatures).radius
               /\ Val(currentFeatures).data =
                      FeaturesData(log[j].polyline_coords, log[j].radius)

\* places were cached by a getPlaces call that has not returned yet, and
\* the selected radius is no longer the radius of its request
RadiusChangedSinceRequest ==
    /\ currentPlaces # Null
    /\ Val(currentPlaces).radius # dom.placesRadius
    /\ \E i \in DOMAIN flows :
           /\ flows[i].kind = "getPlaces"
           /\ flows[i].pc = "updatePlaces"
           /\ flows[i].radius = Val(currentPlaces).radius

\* the call suspended as flow i at pc received the failure of its request
\* in this step: it is gone, and no call went on to the pc that follows a
\* successful response
RequestFailedAt(i, pc, next) ==
    /\ flows[i].pc = pc
    /\ Awaiting(flows', pc) = Awaiting(flows, pc) - 1
    /\ Len(flows') \in {Len(flows) - 1, Len(flows)}
    /\ SubSeq(flows', 1, Len(flows) - 1) = RemoveAt(flows, i)
    /\ Awaiting(flows', next) = Awaiting(flows, next)

\* C33: a failed places (features) request leaves the cached places
\* (features) unchanged, shows the error in the places (features) list and
\* raises no alert.  The route generation that awaits the call goes on:
\* after the places it handles the features, when they were asked for,
\* with one request or from the cache, and shows the results and hides the
\* loading indicator as soon as nothing is left to await.
FailedListRequestIsContained ==
    [][/\ \A i \in DOMAIN flows :
              RequestFailedAt(i, "placesRequest", "updatePlaces") =>
                  /\ currentPlaces' = currentPlaces
                  /\ dom'.placesList = <<"error">>
                  /\ dom'.alerts = dom.alerts
                  /\ currentRoute' = currentRoute
                  /\ flows[i].k # Null =>
                         IF Val(flows[i].k).showFeatures
                         THEN /\ NewRequests("/natural_features")
                                    + NewRequests("cache:/natural_features") = 1
                              /\ NewRequests("/natural_features") = 1
                                    <=> Len(flows') = Len(flows)
                              /\ NewRequests("/natural_features") = 0
                                    => dom'.results /\ ~dom'.loading
                         ELSE /\ Len(flows') = Len(flows) - 1
                              /\ dom'.results /\ ~dom'.loading
       /\ \A i \in DOMAIN flows :
              RequestFailedAt(i, "featuresRequest", "updateFeatures") =>
                  /\ currentFeatures' = currentFeatures
                  /\ dom'.featuresList = <<"error">>
                  /\ dom'.alerts = dom.alerts
                  /\ currentRoute' = currentRoute
                  /\ Len(flows') = Len(flows) - 1
                  /\ flows[i].k # Null => dom'.results /\ ~dom'.loading]_vars

\* a route generation has shown its results after its places request failed
ResultsShownAfterPlacesFailed ==
    /\ Len(log) >= 2
    /\ log[Len(log) - 1].url = "reuse:/route"
    /\ log[Len(log)].url = "/places"
    /\ dom.placesList = <<"error">>
    /\ dom.results
    /\ ~dom.loading
    /\ dom.alerts = 0
    /\ flows = <<>>

(***************************************************************************)
(* SpecReset: the session with a user who also resets the conversation,    *)
(* and who generates routes and chats (chat.js, initChat, lines 38-63).    *)
(***************************************************************************)
\* the click on the reset button: POST /chat/reset is sent
resetConversation(w) ==
    [w EXCEPT !.flows = Append(@, [kind |-> "resetConversation",
                                   pc |-> "chatReset"])]

\* ResetDone that also empties the session store
ResetDoneClearsStore(w, i, ok, cleared) ==
    IF ok
    THEN [clearMapLayers(DropFlow(w, i)) EXCEPT
              !.dom.chatMessages = 0,
              !.currentRoute = Null, !.currentPlaces = Null,
              !.currentFeatures = Null,
              !.server = IF cleared THEN Null ELSE @]
    ELSE DropFlow(w, i)

\* lines 43-62: on success the chat messages are replaced by the greeting
\* and the map layers are cleared; the backend has cleared its conversation,
\* with or without the route it holds
ResetDone(w, i, ok, cleared) ==
    IF ok
    THEN [clearMapLayers(DropFlow(w, i)) EXCEPT
              !.dom.chatMessages = 0,
              !.server = IF cleared THEN Null ELSE @]
    ELSE DropFlow(w, i)

UserResets ==
    /\ used.events < MaxEvents
    /\ Commit(resetConversation([W EXCEPT !.used.events = @ + 1]))

ResetResponse ==
    \E i \in 1..Len(flows), ok \in BOOLEAN, cleared \in BOOLEAN :
        /\ flows[i].pc = "chatReset"
        /\ Commit(ResetDone(W, i, ok, cleared))

NextReset ==
    \/ UserResets
    \/ ResetResponse
    \/ UserClicks
    \/ UserChats
    \/ StreamEnd
    \/ GeocodeResponse
    \/ RouteResponse
    \/ UpdateStateResponse
    \/ PlacesResponse
    \/ UpdatePlacesResponse
    \/ FeaturesResponse
    \/ UpdateFeaturesResponse
    \/ CurrentRouteResponse

SpecReset == Init /\ [][NextReset]_vars

\* C34: a successful reset of the conversation clears the chat messages and
\* the map layers and leaves the session state unchanged: the current
\* route, the cached places and the cached features keep their values; a
\* failed reset changes nothing.  A places_requested event that is handled
\* with a route in memory, after a reset as well, requests or serves the
\* places of that route.
ResetLeavesSessionState ==
    [][/\ Awaiting(flows', "chatReset") < Awaiting(flows, "chatReset") =>
              /\ UNCHANGED <<currentRoute, currentPlaces, currentFeatures>>
              /\ \/ /\ dom' = [dom EXCEPT !.chatMessages = 0]
                    /\ map' = [routeLayer |-> {}, placesLayer |-> Null,
                               featuresLayer |-> Null]
                 \/ UNCHANGED <<dom, map, server>>
       /\ (/\ used.chats' = used.chats + 1
           /\ stream' = Encode("p")
           /\ currentRoute # Null
           /\ Val(currentRoute).polyline_coords # Null)
          => /\ NewRequests("/places") + NewRequests("cache:/places") = 1
             /\ \A j \in DOMAIN Logged :
                    Logged[j].polyline_coords =
                        Val(Val(currentRoute).polyline_coords)]_vars

\* the reset of the conversation succeeded after a chat message was sent:
\* the chat and the map are empty, the route and its cached places are
\* still in the session state
StoreKeptAfterReset ==
    /\ used.chats = 1
    /\ dom.chatMessages = 0
    /\ map = [routeLayer |-> {}, placesLayer |-> Null, featuresLayer |-> Null]
    /\ currentRoute # Null
    /\ currentPlaces # Null
    /\ flows = <<>>

\* C35: when the check for a route update gets no route from the backend
\* (404, or the request failed), it changes nothing: the call returns
\* without touching the form, the lists, the map, the active tab or the
\* session state, and it sends no request and starts no route generation.
CheckWithoutRouteChangesNothing ==
    [][(RouteUpdateCheckReturns /\ server = Null) =>
           /\ \E i \in DOMAIN flows :
                  /\ flows[i].kind = "checkForRouteUpdate"
                  /\ flows' = RemoveAt(flows, i)
           /\ UNCHANGED <<dom, map, log, server, currentRoute, currentPlaces,
                          currentFeatures, chatRequests>>]_vars

\* a completion asked for a route update while the backend had no route
\* and a route was in memory: the check has returned, the chat tab is
\* still shown and no route generation was started
CheckFoundNoRoute ==
    /\ server = Null
    /\ currentRoute # Null
    /\ calls # <<>>
    /\ calls[Len(calls)].cb = "onComplete"
    /\ Truthy(calls[Len(calls)].result.requiresUpdate)
    /\ flows = <<>>
    /\ dom.activeTab = "chat"
    /\ ~dom.loading

(***************************************************************************)
(* SpecFlags: one chat stream of chunks and of places_requested and        *)
(* features_requested events whose show flag is false or missing, in a     *)
(* session without a route and in a session with a route.                  *)
(***************************************************************************)
FlagKeys == {"h", "q", "g"}

\* the texts of at most n messages with these keys
RECURSIVE FlagTexts(_)
FlagTexts(n) ==
    IF n = 0
    THEN {<<>>}
    ELSE LET shorter == FlagTexts(n - 1)
         IN shorter \cup {t \o Encode(k) : t \in shorter, k \in FlagKeys}

InitFlags ==
    \E w \in {PageLoaded, SessionWithRoute}, text \in FlagTexts(MaxMsgs) :
        Start(sendMessage(w, text))

SpecFlags == InitFlags /\ [][NextDecoder]_vars

\* a places_requested (features_requested) event whose show flag is not set
IsUnflaggedRequest(m) ==
    /\ m # Null
    /\ \/ Val(m).status = "places_requested" /\ ~Truthy(Val(m).show_places)
       \/ /\ Val(m).status = "features_requested"
          /\ ~Truthy(Val(m).show_features)

\* C36: a places_requested (features_requested) event whose show flag is
\* not set, handled as the message that ends the stream, changes no option
\* of the form, sends no request and leaves the session state unchanged:
\* the form, the lists, the map, the log of requests and the session state
\* are those of the session in which the message was sent.  Its only
\* effect is one onComplete, after the onChunk calls of the chunks before
\* it, with the message and the update flag of the event; with the flag
\* set the callback calls checkForRouteUpdate.
UnflaggedRequestOnlyCompletes ==
    \A j \in DOMAIN Seen :
        (/\ IsUnflaggedRequest(Seen[j])
         /\ \A k \in 1..(j - 1) : ~EndsStream(Seen[k]))
        => LET result == [responseText |-> OrElse(Val(Seen[j]).message, ""),
                          requiresUpdate |->
                              OrElse(Val(Seen[j]).requires_ui_update, "false")]
               sent == sendMessage(SessionAtOpen, stream)
           IN /\ reader = "cancelled"
              /\ calls = Append(ChunkCalls(SubSeq(Seen, 1, j - 1), 1),
                                [cb |-> "onComplete", result |-> result])
              /\ dom = sent.dom
              /\ map = sent.map
              /\ log = sent.log
              /\ currentRoute = sent.currentRoute
              /\ currentPlaces = sent.currentPlaces
              /\ currentFeatures = sent.currentFeatures
              /\ flows = IF Truthy(result.requiresUpdate)
                         THEN checkForRouteUpdate(sent).flows
                         ELSE sent.flows

\* with a route in memory, a places_requested event without the show flag
\* has ended a stream that had delivered a chunk
UnflaggedPlacesRequestHandled ==
    /\ currentRoute # Null
    /\ reader = "cancelled"
    /\ Len(calls) = 2
    /\ calls[1].cb = "onChunk"
    /\ calls[2] = [cb |-> "onComplete",
                   result |-> [responseText |-> "Places",
                               requiresUpdate |-> "false"]]
    /\ ~dom.showPlaces
    /\ flows = <<>>

(***************************************************************************)
(* Properties of a failed route generation, checked under Spec.            *)
(***************************************************************************)
\* a generateRoute call that needed a new route has failed with this step,
\* at a geocoding or at its POST /route request
NewRouteFailed ==
    \/ EndedAt("geocodeOrigin")
    \/ EndedAt("geocodeDestination")
    \/ EndedAt("routeRequest") /\ used.routes' = used.routes

\* C37: a route generation that needs a new route and fails at a geocoding
\* or at the /route request leaves the session route at its previous value
\* and the cached places and features cleared, so that the next places or
\* features request for the unchanged route goes to the backend.
FailedGenerationLeavesCachesCleared ==
    [][NewRouteFailed =>
           /\ currentRoute' = currentRoute
           /\ currentPlaces' = Null
           /\ currentFeatures' = Null
           /\ dom'.alerts = dom.alerts + 1]_vars

====
